---- MODULE Spec2Model ----
(***************************************************************************)
(* A model of the TRS-80 disk driver (trs80_driver.py): the TRSDOS file    *)
(* system layer (GAT, directory entries, read/write/delete) over a sector  *)
(* store, the JV1, DMK and JV3 sector handlers over a byte buffer, the     *)
(* directory analysis and detect_format; and of the mount layer            *)
(* (trs80_fuse.py) with its write-back cache.                              *)
(*                                                                         *)
(* Byte strings are kept run-length encoded: a sequence of <<value, count>>*)
(* pairs with count > 0 and no two neighbouring pairs of the same value,   *)
(* so that two byte strings are equal iff their encodings are equal.       *)
(* Characters are their ASCII codes; a file name is a sequence of codes.   *)
(* An optional value (Python's None or a value) is <<>> or <<v>>.          *)
(***************************************************************************)
EXTENDS Integers, Sequences, FiniteSets, TLC

VARIABLES mem, disk, dir_track, dir_sector_offset, system_type, detected_os,
          last, prev, ops,
          handler, self_data, track_len, is_single_sided, sector_map, sec,
          files, buffers, failed_paths, fuse,
          image_file, header, detected

\* the file system over its image, and the sector handler over its buffer
fsVars == <<mem, disk, dir_track, dir_sector_offset, system_type, detected_os,
           last, prev>>
sectorVars == <<handler, self_data, track_len, is_single_sided, sector_map, sec>>
\* the mount layer (TRSDOS_FUSE) over the file system
fuseVars == <<files, buffers, failed_paths, fuse>>
\* detect_format on a file: its name, its first bytes, what the call gave
detectVars == <<image_file, header, detected>>
vars == <<fsVars, sectorVars, fuseVars, detectVars, ops>>

-----------------------------------------------------------------------------
(* Bounds of the model *)

\* Tracks of the image; the GAT bytes of further tracks are not free.
NumTracks == 19
\* Readable directory sectors (sectors 2 .. 1 + NumDirSectors of the directory track).
NumDirSectors == 1
\* Calls of write_file / delete_file in one behaviour.
MaxOps == 3
\* Calls of read_sector / write_sector in one sector-level behaviour.
MaxSectorOps == 2
\* Calls of the mount layer in one behaviour.
MaxFuseOps == 3
\* Calls of write_file with a content of several granules in one behaviour.
MaxAllocOps == 3
\* Tracks of the JV1 buffer of the sector-level behaviours.
JV1Tracks == 2
\* Gap bytes between an IDAM and its data address mark in the DMK buffers.
DmkGap == 3

(* Program constants *)

SECTOR_SIZE == 256
DIR_TRACK_TRSDOS == 17
SectorsPerGranule == 5
GranulesPerTrack == 2
JV1SectorsPerTrack == 10
EntrySize == 32
MaxExtents == 5
DirScanStart == 2
DirScanEnd == 18
NewdosScanStart == 10
GAT_FREE == 255
GAT_RESERVED == 254
ATTR_IN_USE == 16
EXTENT_END == 255
EXTENT_FXDE == 254
ENOSPC == 28
EOF_BIAS == 255

None == <<>>
Some(v) == <<v>>
IsNone(o) == o = <<>>
Val(o) == o[1]

Min(a, b) == IF a < b THEN a ELSE b
Max(a, b) == IF a > b THEN a ELSE b
SetMin(S) == CHOOSE x \in S : \A y \in S : x <= y

-----------------------------------------------------------------------------
(* Byte strings, run-length encoded *)

\* len(b): the counts of the runs from run j on, summed
RECURSIVE RunsLen(_, _)
RunsLen(b, j) == IF j > Len(b) THEN 0 ELSE b[j][2] + RunsLen(b, j + 1)

BLen(b) == RunsLen(b, 1)

Fill(v, n) == IF n <= 0 THEN <<>> ELSE << <<v, n>> >>

\* a + b (bytes concatenation, bytearray.extend)
Cat(a, b) ==
    IF a = <<>> THEN b
    ELSE IF b = <<>> THEN a
    ELSE IF a[Len(a)][1] = b[1][1]
         THEN SubSeq(a, 1, Len(a) - 1)
                \o << <<b[1][1], a[Len(a)][2] + b[1][2]>> >>
                \o Tail(b)
         ELSE a \o b

\* b[:n] for n >= 0
RECURSIVE Take(_, _)
Take(b, n) ==
    IF n <= 0 \/ b = <<>> THEN <<>>
    ELSE IF b[1][2] >= n THEN << <<b[1][1], n>> >>
    ELSE <<b[1]>> \o Take(Tail(b), n - b[1][2])

\* b[n:] for n >= 0
RECURSIVE Drop(_, _)
Drop(b, n) ==
    IF b = <<>> THEN <<>>
    ELSE IF n <= 0 THEN b
    ELSE IF b[1][2] > n THEN << <<b[1][1], b[1][2] - n>> >> \o Tail(b)
    ELSE Drop(Tail(b), n - b[1][2])

\* Python's b[:n], n of either sign
SliceTo(b, n) == IF n >= 0 THEN Take(b, n) ELSE Take(b, Max(BLen(b) + n, 0))

ZeroSector == Fill(0, SECTOR_SIZE)

-----------------------------------------------------------------------------
(* Characters and names *)

SLASH == 47
SPACE == 32

\* the characters str.strip() removes (latin-1 range)
IsSpace(c) == c \in {9, 10, 11, 12, 13, 28, 29, 30, 31, 32, 133, 160}

\* str.upper() on one ASCII character
UpperChar(c) == IF c >= 97 /\ c <= 122 THEN c - 32 ELSE c

Upper(s) == [i \in 1..Len(s) |-> UpperChar(s[i])]

\* s.ljust(n)[:n]
PadCut(s, n) == [i \in 1..n |-> IF i <= Len(s) THEN s[i] ELSE SPACE]

RECURSIVE LStrip(_)
LStrip(s) == IF s # <<>> /\ IsSpace(s[1]) THEN LStrip(Tail(s)) ELSE s

RECURSIVE RStrip(_)
RStrip(s) ==
    IF s # <<>> /\ IsSpace(s[Len(s)]) THEN RStrip(SubSeq(s, 1, Len(s) - 1)) ELSE s

Strip(s) == RStrip(LStrip(s))

\* index of the first '/' in s, 0 if there is none
RECURSIVE FirstSlash(_, _)
FirstSlash(s, i) ==
    IF i > Len(s) THEN 0 ELSE IF s[i] = SLASH THEN i ELSE FirstSlash(s, i + 1)

\* write_file's parse of its filename argument: the 8-byte and 3-byte fields
NameField(filename) ==
    LET k == FirstSlash(filename, 1)
        name == IF k > 0 THEN SubSeq(filename, 1, k - 1) ELSE filename
    IN  Upper(PadCut(name, 8))

ExtField(filename) ==
    LET k == FirstSlash(filename, 1)
        ext == IF k > 0 THEN SubSeq(filename, k + 1, Len(filename))
               ELSE <<SPACE, SPACE, SPACE>>
    IN  Upper(PadCut(ext, 3))

\* the "NAME/EXT" string read_file, delete_file and list_files decode from an entry
FullName(e) == Strip(e.name) \o <<SLASH>> \o Strip(e.ext)

-----------------------------------------------------------------------------
(* The image as the file system sees it through read_sector / write_sector.   *)
(*   gat  : the GAT sector (directory track, sector dir_sector_offset), one   *)
(*          byte per granule, for the granules of tracks 0 .. NumTracks - 1   *)
(*   dir  : the readable directory sectors, each 8 entries of 32 bytes        *)
(*   data : the payload of sector (track, sector) of every other track        *)
(* An entry keeps the bytes the code reads or writes: 0 (attr), 1, 3          *)
(* (eof_low), 5-12 (name), 13-15 (ext), 20 (eof_mid), 21 (eof_high), 22-31    *)
(* (extents, five pairs track/info).                                          *)

GatLen == GranulesPerTrack * NumTracks
Tracks == 0 .. (NumTracks - 1)
SlotsPerSector == SECTOR_SIZE \div EntrySize
DirSectorNums == DirScanStart .. (DirScanStart + NumDirSectors - 1)

ZeroSlot ==
    [attr |-> 0, b1 |-> 0, eof_low |-> 0, name |-> [i \in 1..8 |-> 0],
     ext |-> [i \in 1..3 |-> 0], eof_mid |-> 0, eof_high |-> 0,
     extents |-> [i \in 1..(2 * MaxExtents) |-> 0]]

\* JV1Image.read_sector on a data track: None for sector >= 10 or past the end
ReadSectorData(img, track, sector) ==
    IF sector >= JV1SectorsPerTrack \/ track \notin Tracks
    THEN None
    ELSE Some(img.data[track][sector])

\* JV1Image.write_sector on a data track: refused (data unchanged) where
\* read_sector finds nothing
WriteSectorData(data, track, sector, payload) ==
    IF sector >= JV1SectorsPerTrack \/ track \notin Tracks
       \/ BLen(payload) # SECTOR_SIZE
    THEN data
    ELSE [data EXCEPT ![track][sector] = payload]

\* read_sector(dir_track, 0, sector) for a directory sector
ReadDirSector(img, sector) ==
    IF sector \in DOMAIN img.dir THEN Some(img.dir[sector]) ELSE None

\* a scan start that follows the sector base for every system type
ScanFirstOfBase(stype, base) == DirScanStart + base

\* the sector range the directory scans cover, for a system type and a
\* sector base
ScanFirstOf(stype, base) ==
    IF stype \in {"NEWDOS/80 (System)", "NEWDOS/80 (Track 9)"}
    THEN NewdosScanStart ELSE DirScanStart + base

ScanLastOf(stype, base) ==
    IF stype \in {"NEWDOS/80 (System)", "NEWDOS/80 (Track 9)"}
    THEN DirScanEnd - 1 ELSE DirScanEnd + base - 1

ScanFirst == ScanFirstOf(system_type, dir_sector_offset)

ScanLast == ScanLastOf(system_type, dir_sector_offset)

\* the entries a scan visits, in order: <<sector, index>> with index 1..8
RECURSIVE ScanFrom(_, _)
ScanFrom(img, sector) ==
    IF sector > ScanLast THEN <<>>
    ELSE (IF IsNone(ReadDirSector(img, sector)) THEN <<>>
          ELSE [i \in 1..SlotsPerSector |-> <<sector, i>>])
         \o ScanFrom(img, sector + 1)

ScanSlots(img) == ScanFrom(img, ScanFirst)

SlotAt(img, loc) == img.dir[loc[1]][loc[2]]

\* attr & 0x80, attr & 0x10
HasBit80(attr) == (attr \div 128) % 2 = 1
HasBit10(attr) == (attr \div ATTR_IN_USE) % 2 = 1

\* the entries read_file and delete_file look at
Matchable(e) == ~(e.attr = 0 \/ e.attr = 255 \/ HasBit80(e.attr))

\* the first entry whose decoded name is filename (read_file, delete_file)
FindEntry(img, filename) ==
    LET hits == SelectSeq(ScanSlots(img),
                    LAMBDA loc : Matchable(SlotAt(img, loc))
                                 /\ FullName(SlotAt(img, loc)) = filename)
    IN  IF hits = <<>> THEN None ELSE Some(hits[1])

\* the extent walk of read_file, delete_file and list_files:
\* <<track, start_granule, count>> up to the first 0xFF / 0xFE track byte
RECURSIVE ExtentsFrom(_, _)
ExtentsFrom(e, i) ==
    IF i >= MaxExtents THEN <<>>
    ELSE LET track == e.extents[2 * i + 1]
             info == e.extents[2 * i + 2]
         IN  IF track = EXTENT_END \/ track = EXTENT_FXDE THEN <<>>
             ELSE << <<track, (info \div 32) % 8, (info % 32) + 1>> >>
                  \o ExtentsFrom(e, i + 1)

ParseExtents(e) == ExtentsFrom(e, 0)

RECURSIVE SumCounts(_)
SumCounts(xs) == IF xs = <<>> THEN 0 ELSE xs[1][3] + SumCounts(Tail(xs))

\* the size read_file and list_files compute from the EOF bytes and the extents
FileSize(e) ==
    LET total_sectors_allocated == SumCounts(ParseExtents(e)) * SectorsPerGranule
        last_sector_offset == e.eof_high * 256 + e.eof_mid
        raw_eof == e.eof_high * 65536 + e.eof_mid * 256 + e.eof_low
    IN  IF e.eof_low = 0
        THEN (IF total_sectors_allocated > 0
              THEN (total_sectors_allocated - 1) * SECTOR_SIZE + (last_sector_offset + 1)
              ELSE 0)
        ELSE raw_eof - EOF_BIAS

\* first sector of a granule within its track
GranuleStartSector(g) ==
    IF g = 0 THEN 0 ELSE IF g = 1 THEN 5 ELSE g * SectorsPerGranule

\* the sectors of an extent list in order, as <<track, sector>>
RECURSIVE ExtentSectors(_)
ExtentSectors(xs) ==
    IF xs = <<>> THEN <<>>
    ELSE LET track == xs[1][1]
             start == xs[1][2]
             count == xs[1][3]
         IN  [k \in 1..(count * SectorsPerGranule) |->
                 <<track,
                   GranuleStartSector(start + ((k - 1) \div SectorsPerGranule))
                     + ((k - 1) % SectorsPerGranule)>>]
             \o ExtentSectors(Tail(xs))

\* content.extend(...) over the sectors in order; a sector read_sector does
\* not find contributes 256 zero bytes. The list is split in halves so that
\* the evaluation depth stays logarithmic in its length.
RECURSIVE ReadSectors(_, _)
ReadSectors(img, addrs) ==
    IF addrs = <<>> THEN <<>>
    ELSE IF Len(addrs) = 1
    THEN LET got == ReadSectorData(img, addrs[1][1], addrs[1][2])
         IN  IF IsNone(got) THEN ZeroSector ELSE Val(got)
    ELSE LET half == Len(addrs) \div 2
         IN  Cat(ReadSectors(img, SubSeq(addrs, 1, half)),
                 ReadSectors(img, SubSeq(addrs, half + 1, Len(addrs))))

\* read_file: None, or the bytes
ReadFile(img, filename) ==
    LET loc == FindEntry(img, filename)
    IN  IF IsNone(loc) THEN None
        ELSE LET e == SlotAt(img, Val(loc))
                 file_size == FileSize(e)
                 content == ReadSectors(img, ExtentSectors(ParseExtents(e)))
             IN  Some(IF BLen(content) > file_size
                      THEN SliceTo(content, file_size) ELSE content)

\* is_valid_name(raw_name) and the extension check of list_files
IsAlnum(c) == (c >= 65 /\ c <= 90) \/ (c >= 97 /\ c <= 122) \/ (c >= 48 /\ c <= 57)
IsPrintable(c) == c >= 32 /\ c <= 126

Listed(e) ==
    /\ HasBit10(e.attr)
    /\ ~HasBit80(e.attr)
    /\ ~(e.attr = 0 \/ e.attr = 255)
    /\ IsAlnum(e.name[1])
    /\ \A i \in 1..8 : IsPrintable(e.name[i])
    /\ \A i \in 1..3 : IsPrintable(e.ext[i])

\* list_files: the records of the listed entries, in scan order
ListFiles(img) ==
    LET hits == SelectSeq(ScanSlots(img), LAMBDA loc : Listed(SlotAt(img, loc)))
    IN  [k \in 1..Len(hits) |->
            [name |-> FullName(SlotAt(img, hits[k])),
             size |-> FileSize(SlotAt(img, hits[k])),
             attr |-> SlotAt(img, hits[k]).attr]]

\* track of GAT position i (0-based) and whether the allocator and
\* get_free_space skip it
TrackOf(i) == i \div GranulesPerTrack
ReservedTrack(track) == track = dir_track \/ track = 0

\* get_free_space
GetFreeSpace(img) ==
    Cardinality({i \in 0..(Len(img.gat) - 1) :
                    ~ReservedTrack(TrackOf(i)) /\ img.gat[i + 1] = GAT_FREE})
      * SectorsPerGranule * SECTOR_SIZE

-----------------------------------------------------------------------------
(* delete_file *)

\* the first granule of each extent only
ExtentFirstPositions(xs) ==
    {xs[k][1] * GranulesPerTrack + xs[k][2] : k \in 1..Len(xs)}

\* GAT positions (0-based) track * granules_per_track + start + g of the
\* granules of an extent list
ExtentGatPositions(xs) ==
    UNION {xs[k][1] * GranulesPerTrack + xs[k][2] ..
           xs[k][1] * GranulesPerTrack + xs[k][2] + xs[k][3] - 1 : k \in 1..Len(xs)}

\* steps 2 and 3 of delete_file on the in-memory image: the granules of the
\* entry at loc set to 0xFF, the GAT written back, the attribute byte zeroed
DeleteEntry(img, loc) ==
    LET freed == ExtentGatPositions(ParseExtents(SlotAt(img, loc)))
        gat == [i \in 1..Len(img.gat) |->
                   IF (i - 1) \in freed THEN GAT_FREE ELSE img.gat[i]]
    IN  [img EXCEPT !.gat = gat, !.dir[loc[1]][loc[2]].attr = 0]

\* a save that writes nothing
SaveNothing(img, file) == file

\* self.disk.save(): the backing file becomes the in-memory buffer
Save(img, file) == img

\* delete_file: the in-memory image, the backing file and the return value
DeleteFile(img, file, filename) ==
    LET loc == FindEntry(img, filename)
    IN  IF IsNone(loc)
        THEN [mem |-> img, disk |-> file, ok |-> FALSE]
        ELSE LET img2 == DeleteEntry(img, Val(loc))
             IN  [mem |-> img2, disk |-> Save(img2, file), ok |-> TRUE]

-----------------------------------------------------------------------------
(* write_file *)

\* step 1: the first entry of the scan with attribute byte 0
FindFreeSlot(img) ==
    LET hits == SelectSeq(ScanSlots(img), LAMBDA loc : SlotAt(img, loc).attr = 0)
    IN  IF hits = <<>> THEN None ELSE Some(hits[1])

\* one granule more than the whole granules of the content
TotalGranulesFloor(n) ==
    LET total_sectors == (n + 255) \div 256
    IN  total_sectors \div SectorsPerGranule + 1

\* granules a content of n bytes needs
TotalGranules(n) ==
    LET total_sectors == (n + 255) \div 256
    IN  (total_sectors + SectorsPerGranule - 1) \div SectorsPerGranule

\* a scan that skips the directory track only
AllocSkipsDirTrackOnly(track) == track = dir_track

\* the positions the allocation scan skips
AllocSkips(track) == track = dir_track \/ track = 0

\* a limit of six extent records
AtExtentLimitSix(n) == n >= MaxExtents + 1

\* len(allocated_extents) >= 5
AtExtentLimit(n) == n >= MaxExtents

\* One iteration of the allocation scan at GAT position i (0-based).
\* st.state is "scan", "break" (the loop was left) or "raise" (too fragmented).
AllocStep(st, i) ==
    LET track == i \div GranulesPerTrack
        granule == i % GranulesPerTrack
    IN  IF st.state # "scan" \/ AllocSkips(track) \/ st.gat[i + 1] # GAT_FREE
        THEN st
        ELSE LET contiguous == st.current_track = track
                                /\ st.current_start + st.current_count = granule
                 closed == IF ~contiguous /\ st.current_count > 0
                           THEN Append(st.extents,
                                       <<st.current_track, st.current_start,
                                         st.current_count>>)
                           ELSE st.extents
                 limit == ~contiguous /\ st.current_count > 0
                          /\ AtExtentLimit(Len(closed))
             IN  IF limit
                 THEN [st EXCEPT !.extents = closed,
                                 !.state = IF st.granules_needed > 0
                                           THEN "raise" ELSE "break"]
                 ELSE [st EXCEPT
                         !.extents = closed,
                         !.current_track = IF contiguous THEN @ ELSE track,
                         !.current_start = IF contiguous THEN @ ELSE granule,
                         !.current_count = IF contiguous THEN @ + 1 ELSE 1,
                         !.granules_needed = @ - 1,
                         !.gat = [@ EXCEPT ![i + 1] = GAT_RESERVED],
                         !.state = IF st.granules_needed - 1 = 0
                                   THEN "break" ELSE "scan"]

RECURSIVE AllocLoop(_, _)
AllocLoop(st, i) ==
    IF i >= Len(st.gat) THEN st ELSE AllocLoop(AllocStep(st, i), i + 1)

\* one failure for both raise sites of the allocation
AllocStatusMerged(st) ==
    IF st.state = "raise" \/ st.granules_needed > 0 THEN "full" ELSE "ok"

\* how the allocation ends: "fragmented" (raised in the scan), "full" (raised
\* after it) or "ok"
AllocStatus(st) ==
    IF st.state = "raise" THEN "fragmented"
    ELSE IF st.granules_needed > 0 THEN "full" ELSE "ok"

\* step 2: the scan over a copy of the GAT, then the run in progress appended.
\* status: "ok", "fragmented" (raised in the scan) or "full" (raised after it)
Allocate(gat, total_granules) ==
    LET st == AllocLoop([gat |-> gat, extents |-> <<>>,
                         granules_needed |-> total_granules,
                         current_track |-> -1, current_start |-> -1,
                         current_count |-> 0, state |-> "scan"], 0)
        extents == IF st.current_count > 0
                   THEN Append(st.extents,
                               <<st.current_track, st.current_start, st.current_count>>)
                   ELSE st.extents
    IN  [gat |-> st.gat, extents |-> extents,
         status |-> AllocStatus(st)]

\* content[off : off + 256] padded with zeros to 256 bytes
PaddedChunk(content, off) ==
    LET chunk == Take(Drop(content, off), SECTOR_SIZE)
    IN  Cat(chunk, Fill(0, SECTOR_SIZE - BLen(chunk)))

\* step 3: the k-th sector of the extents gets the k-th chunk while content lasts
RECURSIVE WriteChunks(_, _, _, _)
WriteChunks(data, addrs, content, content_offset) ==
    IF addrs = <<>> \/ content_offset >= BLen(content) THEN data
    ELSE WriteChunks(WriteSectorData(data, addrs[1][1], addrs[1][2],
                                     PaddedChunk(content, content_offset)),
                     Tail(addrs), content, content_offset + SECTOR_SIZE)

\* the EOF bytes without the clamp of rba at 0
EofBytesNoClamp(size) ==
    LET raw_eof == size - 1 + EOF_BIAS
    IN  [eof_low |-> raw_eof % 256, eof_mid |-> (raw_eof \div 256) % 256,
         eof_high |-> (raw_eof \div 65536) % 256]

\* the EOF bytes 3, 20, 21 of a new entry
EofBytes(size) ==
    LET rba == IF size - 1 < 0 THEN 0 ELSE size - 1
        raw_eof == rba + EOF_BIAS
        eof_low == raw_eof % 256
    IN  IF eof_low = 0
        THEN [eof_low |-> 0, eof_mid |-> rba % 256, eof_high |-> (rba \div 256) % 256]
        ELSE [eof_low |-> eof_low, eof_mid |-> (raw_eof \div 256) % 256,
              eof_high |-> (raw_eof \div 65536) % 256]

\* the info byte of an extent
ExtentInfo(start, count) == (start % 8) * 32 + ((count - 1) % 32)

\* bytes 22..31 of a new entry: the first five extents, then 0xFF if fewer
ExtentBytes(extents) ==
    [j \in 1..(2 * MaxExtents) |->
        LET i == (j - 1) \div 2
        IN  IF i < Len(extents)
            THEN (IF j % 2 = 1 THEN extents[i + 1][1]
                  ELSE ExtentInfo(extents[i + 1][2], extents[i + 1][3]))
            ELSE IF i = Len(extents) /\ j % 2 = 1 /\ Len(extents) < MaxExtents
                 THEN EXTENT_END ELSE 0]

\* step 5: the new entry
NewEntry(filename, size, extents) ==
    LET eof == EofBytes(size)
    IN  [attr |-> ATTR_IN_USE, b1 |-> 0, eof_low |-> eof.eof_low,
         name |-> NameField(filename), ext |-> ExtField(filename),
         eof_mid |-> eof.eof_mid, eof_high |-> eof.eof_high,
         extents |-> ExtentBytes(extents)]

\* the directory sector with the new entry at index idx; a sixth extent is
\* written at off + 32 and off + 33, bytes 0 and 1 of the next entry
SectorWithEntry(slots, idx, filename, size, extents) ==
    LET one == [slots EXCEPT ![idx] = NewEntry(filename, size, extents)]
    IN  IF Len(extents) > MaxExtents
        THEN [one EXCEPT ![idx + 1].attr = extents[MaxExtents + 1][1],
                         ![idx + 1].b1 = ExtentInfo(extents[MaxExtents + 1][2],
                                                    extents[MaxExtents + 1][3])]
        ELSE one

\* steps 3 to 6 once a slot and the granules are there. The sixth extent of
\* an entry in the last slot of its sector indexes past the sector copy
\* (IndexError): the data and the GAT are written, the entry and the file not.
CommitWrite(img, file, loc, filename, content, alloc) ==
    LET data == WriteChunks(img.data, ExtentSectors(alloc.extents), content, 0)
        img3 == [img EXCEPT !.data = data, !.gat = alloc.gat]
    IN  IF Len(alloc.extents) > MaxExtents /\ loc[2] = SlotsPerSector
        THEN [mem |-> img3, disk |-> file, ok |-> FALSE, err |-> "IndexError",
              extents |-> alloc.extents]
        ELSE LET img4 == [img3 EXCEPT !.dir[loc[1]] =
                             SectorWithEntry(@, loc[2], filename,
                                             BLen(content), alloc.extents)]
             IN  [mem |-> img4, disk |-> Save(img4, file), ok |-> TRUE,
                  err |-> "", extents |-> alloc.extents]

\* write_file: the in-memory image, the backing file, the outcome (ok, or the
\* error raised) and the extents the allocation produced
\* (allocated_extents, as handed to the entry writer)
WriteFile(img, file, filename, content) ==
    LET del == DeleteFile(img, file, filename)
        loc == FindFreeSlot(del.mem)
        alloc == Allocate(del.mem.gat, TotalGranules(BLen(content)))
    IN  IF IsNone(loc)
        THEN [mem |-> del.mem, disk |-> del.disk, ok |-> FALSE, err |-> "NoSlot",
              extents |-> <<>>]
        ELSE IF alloc.status # "ok"
        THEN [mem |-> del.mem, disk |-> del.disk, ok |-> FALSE,
              err |-> alloc.status, extents |-> <<>>]
        ELSE CommitWrite(del.mem, del.disk, Val(loc), filename, content, alloc)

\* the exception a failed write_file raises, by raise site: its type, errno
\* and message
WriteError(err) ==
    CASE err = "NoSlot" ->
           [type |-> "OSError", errno |-> ENOSPC, msg |-> "No free directory slots"]
      [] err = "fragmented" ->
           [type |-> "OSError", errno |-> ENOSPC,
            msg |-> "Disk full or too fragmented (Max 5 extents)"]
      [] err = "full" ->
           [type |-> "OSError", errno |-> ENOSPC, msg |-> "Disk full"]
      [] OTHER -> [type |-> err, errno |-> 0, msg |-> ""]

-----------------------------------------------------------------------------
(* Sector handlers over the flat byte buffer self.data (JV1Image, DMKImage). *)
(* A read_sector result is [kind, p]: kind "none" (None returned), "data"    *)
(* (the payload p returned) or "raise" (IndexError from a buffer index).     *)

DMK_HEADER_SIZE == 16
IDAM_ENTRIES == 64
IDAM_OFFSET_MASK == 16383
IDAM_MIN_LEN == 6
DAM_SEARCH_SKIP == 7
DAM_SEARCH_LEN == 50
DAM_NORMAL == 251
DAM_DELETED == 248
DMK_SS_FLAG == 64
DMK_MAX_TRACKS == 100
JV3_HEADER_SIZE == 3
JV3_FREE == 255

\* the byte i positions into run j and its successors
RECURSIVE ByteFrom(_, _, _)
ByteFrom(b, j, i) == IF i < b[j][2] THEN b[j][1] ELSE ByteFrom(b, j + 1, i - b[j][2])

\* the byte at position i, 0 <= i < len(b)
ByteAt(b, i) == ByteFrom(b, 1, i)

\* b[i] does not raise IndexError, for a buffer of length len
InRange(len, i) == i >= -len /\ i < len

\* b[i] for an index of either sign that is in range
Index(b, i) == ByteAt(b, IF i < 0 THEN i + BLen(b) ELSE i)

\* a slice bound as Python clips it
SliceBound(b, x) == IF x < 0 THEN Max(x + BLen(b), 0) ELSE Min(x, BLen(b))

\* b[lo:hi]
Slice(b, lo, hi) ==
    LET l == SliceBound(b, lo)
        h == SliceBound(b, hi)
    IN  IF h <= l THEN <<>> ELSE Drop(Take(b, h), l)

\* b[lo:hi] = p on a bytearray
SliceAssign(b, lo, hi, p) ==
    LET l == SliceBound(b, lo)
        h == Max(SliceBound(b, hi), l)
    IN  Cat(Cat(Take(b, l), p), Drop(b, h))

NoData == [kind |-> "none", p |-> <<>>]
Raised == [kind |-> "raise", p |-> <<>>]
Data(p) == [kind |-> "data", p |-> p]

\* JV1Image.read_sector
JV1ReadSector(buf, track, side, sector) ==
    IF side # 0 THEN NoData
    ELSE IF sector >= JV1SectorsPerTrack THEN NoData
    ELSE LET offset == (track * JV1SectorsPerTrack + sector) * SECTOR_SIZE
         IN  IF offset + SECTOR_SIZE > BLen(buf) THEN NoData
             ELSE Data(Slice(buf, offset, offset + SECTOR_SIZE))

\* JV1Image.write_sector: the buffer afterwards and the value returned
JV1WriteSector(buf, track, side, sector, payload) ==
    IF side # 0 THEN [buf |-> buf, ok |-> FALSE, raised |-> FALSE]
    ELSE IF sector >= JV1SectorsPerTrack
    THEN [buf |-> buf, ok |-> FALSE, raised |-> FALSE]
    ELSE IF BLen(payload) # SECTOR_SIZE
    THEN [buf |-> buf, ok |-> FALSE, raised |-> FALSE]
    ELSE LET offset == (track * JV1SectorsPerTrack + sector) * SECTOR_SIZE
         IN  IF offset + SECTOR_SIZE > BLen(buf)
             THEN [buf |-> buf, ok |-> FALSE, raised |-> FALSE]
             ELSE [buf |-> SliceAssign(buf, offset, offset + SECTOR_SIZE, payload),
                   ok |-> TRUE, raised |-> FALSE]

\* DMKImage.__init__: track_len and is_single_sided from the header
DMKTrackLen(buf) == Index(buf, 2) + Index(buf, 3) * 256

DMKNumTracks(buf) ==
    IF Index(buf, 1) = 0 \/ Index(buf, 1) > DMK_MAX_TRACKS
    THEN (BLen(buf) - DMK_HEADER_SIZE) \div DMKTrackLen(buf)
    ELSE Index(buf, 1)

DMKSingleSided(buf) ==
    \/ (Index(buf, 4) \div DMK_SS_FLAG) % 2 = 1
    \/ BLen(buf) = DMK_HEADER_SIZE + DMKNumTracks(buf) * DMKTrackLen(buf)

\* the search for the data address mark after an IDAM: the first k in
\* range(50) at which the buffer index raises or the byte is FB / F8;
\* "continue" (the IDAM table loop goes on) if there is none
DMKFindMark(buf, len, search_start) ==
    LET stops == {k \in 0..(DAM_SEARCH_LEN - 1) :
                     \/ ~InRange(len, search_start + k)
                     \/ Index(buf, search_start + k) \in {DAM_NORMAL, DAM_DELETED}}
    IN  IF stops = {} THEN [kind |-> "continue", at |-> 0]
        ELSE LET k == SetMin(stops)
             IN  IF ~InRange(len, search_start + k)
                 THEN [kind |-> "raise", at |-> 0]
                 ELSE [kind |-> "found", at |-> search_start + k]

\* one iteration i of the IDAM table loop
DMKEntry(buf, len, track_start, track, sector, i) ==
    LET ptr_offset == track_start + i * 2
    IN  IF ~InRange(len, ptr_offset) \/ ~InRange(len, ptr_offset + 1)
        THEN [kind |-> "raise", at |-> 0]
        ELSE LET ptr == Index(buf, ptr_offset) + Index(buf, ptr_offset + 1) * 256
                 abs_idam == track_start + (ptr % (IDAM_OFFSET_MASK + 1))
             IN  IF ptr = 0 THEN [kind |-> "break", at |-> 0]
                 ELSE IF abs_idam + IDAM_MIN_LEN > len
                 THEN [kind |-> "continue", at |-> 0]
                 ELSE IF ~InRange(len, abs_idam + 1) \/ ~InRange(len, abs_idam + 3)
                 THEN [kind |-> "raise", at |-> 0]
                 ELSE IF Index(buf, abs_idam + 3) = sector
                         /\ Index(buf, abs_idam + 1) = track
                 THEN DMKFindMark(buf, len, abs_idam + DAM_SEARCH_SKIP)
                 ELSE [kind |-> "continue", at |-> 0]

\* the sector search of read_sector and write_sector: how the IDAM table
\* loop ends at its first iteration that does not continue ("none": it
\* breaks or runs out; "raise"; "found" with the position of the data
\* address mark)
DMKLocate(buf, tlen, single_sided, track, side, sector) ==
    IF single_sided /\ side > 0 THEN [kind |-> "none", at |-> 0]
    ELSE LET track_idx == IF single_sided THEN track ELSE track * 2 + side
             track_start == DMK_HEADER_SIZE + track_idx * tlen
             len == BLen(buf)
             stops == {i \in 0..(IDAM_ENTRIES - 1) :
                         DMKEntry(buf, len, track_start, track, sector, i).kind
                             # "continue"}
         IN  IF track_start >= len THEN [kind |-> "none", at |-> 0]
             ELSE IF stops = {} THEN [kind |-> "none", at |-> 0]
             ELSE LET i == SetMin(stops)
                      r == DMKEntry(buf, len, track_start, track, sector, i)
                  IN  IF r.kind = "break" THEN [kind |-> "none", at |-> 0] ELSE r

\* DMKImage.read_sector
DMKReadSector(buf, tlen, single_sided, track, side, sector) ==
    LET r == DMKLocate(buf, tlen, single_sided, track, side, sector)
    IN  IF r.kind = "none" THEN NoData
        ELSE IF r.kind = "raise" THEN Raised
        ELSE Data(Slice(buf, r.at + 1, r.at + 1 + SECTOR_SIZE))

\* the slice assignment with data_start taken at the mark itself
DMKStoreAtMark(buf, mark, payload) ==
    SliceAssign(buf, mark, mark + SECTOR_SIZE, payload)

\* self.data[data_start:data_start + 256] = data, data_start one past the mark
DMKStore(buf, mark, payload) ==
    SliceAssign(buf, mark + 1, mark + 1 + SECTOR_SIZE, payload)

\* DMKImage.write_sector: the buffer afterwards and the value returned
DMKWriteSector(buf, tlen, single_sided, track, side, sector, payload) ==
    IF BLen(payload) # SECTOR_SIZE
    THEN [buf |-> buf, ok |-> FALSE, raised |-> FALSE]
    ELSE LET r == DMKLocate(buf, tlen, single_sided, track, side, sector)
         IN  IF r.kind = "none" THEN [buf |-> buf, ok |-> FALSE, raised |-> FALSE]
             ELSE IF r.kind = "raise"
             THEN [buf |-> buf, ok |-> FALSE, raised |-> TRUE]
             ELSE [buf |-> DMKStore(buf, r.at, payload),
                   ok |-> TRUE, raised |-> FALSE]

\* JV3Image._parse_image from offset on: the sector map as a set of
\* <<<<track, side, sector>>, offset>>, a later record replacing an earlier
\* one of the same key
RECURSIVE JV3Parse(_, _, _, _)
JV3Parse(buf, len, offset, smap) ==
    IF offset >= len \/ offset + JV3_HEADER_SIZE > len THEN smap
    ELSE LET track == ByteAt(buf, offset)
             sector == ByteAt(buf, offset + 1)
             flags == ByteAt(buf, offset + 2)
             size_code == flags % 4
             side == (flags \div 16) % 2
             data_len == CASE size_code = 0 -> 256
                           [] size_code = 1 -> 128
                           [] size_code = 2 -> 1024
                           [] OTHER -> 512
             key == <<track, side, sector>>
         IN  IF track = JV3_FREE
             THEN JV3Parse(buf, len, offset + JV3_HEADER_SIZE + 128 * (2 ^ size_code),
                           smap)
             ELSE JV3Parse(buf, len, offset + JV3_HEADER_SIZE + data_len,
                           {e \in smap : e[1] # key}
                               \cup {<<key, offset + JV3_HEADER_SIZE>>})

\* JV3Image.__init__: self.sector_map
JV3ParseImage(buf) == JV3Parse(buf, BLen(buf), 0, {})

\* JV3Image.read_sector
JV3ReadSector(buf, smap, track, side, sector) ==
    LET hits == {e \in smap : e[1] = <<track, side, sector>>}
    IN  IF hits = {} THEN NoData
        ELSE LET offset == (CHOOSE e \in hits : TRUE)[2]
             IN  Data(Slice(buf, offset, offset + SECTOR_SIZE))

\* JV3Image has no write_sector: DiskImage.write_sector raises
\* NotImplementedError
JV3WriteSector(buf, smap, track, side, sector, payload) ==
    [buf |-> buf, ok |-> FALSE, raised |-> TRUE]

ReadSector(h, buf, tlen, single_sided, smap, track, side, sector) ==
    IF h = "JV1" THEN JV1ReadSector(buf, track, side, sector)
    ELSE IF h = "JV3" THEN JV3ReadSector(buf, smap, track, side, sector)
    ELSE DMKReadSector(buf, tlen, single_sided, track, side, sector)

WriteSector(h, buf, tlen, single_sided, smap, track, side, sector, payload) ==
    IF h = "JV1" THEN JV1WriteSector(buf, track, side, sector, payload)
    ELSE IF h = "JV3" THEN JV3WriteSector(buf, smap, track, side, sector, payload)
    ELSE DMKWriteSector(buf, tlen, single_sided, track, side, sector, payload)

-----------------------------------------------------------------------------
(* The analyzer: TRSDOSFileSystem.__init__ sets the defaults and calls        *)
(* _analyze, which reads the disk through the handler's read_sector.          *)

DEFAULT_DIR_TRACK == 17
MODEL3_DIR_TRACK == 20
NEWDOS_DIR_TRACK == 9
SCAN_TRACKS == 80

valid_markers == {255, 254, 253, 252, 63, 31, 15, 127}
newdos_opcodes == {225, 193, 58, 205, 195, 243}
boot_opcodes == {0, 243, 62, 33, 195, 24, 254}

\* the strings the analyzer looks for, as character codes
TxtTRSDOS == <<84, 82, 83, 68, 79, 83>>
TxtGAT == <<71, 65, 84>>
TxtBOOT == <<66, 79, 79, 84>>
TxtSYS == <<83, 89, 83>>
TxtNEWDOS == <<78, 69, 87, 68, 79, 83>>
TxtLDOS == <<76, 68, 79, 83>>
TxtRS == <<82, 46, 83, 46>>
TxtRadioShack == <<82, 65, 68, 73, 79, 32, 83, 72, 65, 67, 75>>
TxtDiskError == <<68, 105, 115, 107, 32, 101, 114, 114, 111, 114>>
TxtNoSystem == <<78, 111, 32, 115, 121, 115, 116, 101, 109>>

\* pat in b, for a byte string b and a sequence of codes pat
Contains(b, pat) ==
    \E i \in 0..(BLen(b) - Len(pat)) :
        \A j \in 1..Len(pat) : ByteAt(b, i + j - 1) = pat[j]

\* self.disk.read_sector(track, 0, sector)
DiskRead(track, sector) ==
    ReadSector(handler, self_data, track_len, is_single_sided, sector_map,
               track, 0, sector)

\* a read result that is neither None nor empty
Truthy(r) == r.kind = "data" /\ BLen(r.p) > 0

\* a check that accepts every readable sector
check_gat_any(track, sector) == Truthy(DiskRead(track, sector))

check_gat(track, sector) ==
    \E r \in {DiskRead(track, sector)} :
        /\ Truthy(r)
        /\ \/ ByteAt(r.p, 0) \in valid_markers
           \/ Contains(r.p, TxtTRSDOS)
           \/ Contains(r.p, TxtGAT)

is_t9_dir ==
    \E r \in {DiskRead(NEWDOS_DIR_TRACK, NewdosScanStart)} :
        /\ Truthy(r)
        /\ ByteAt(r.p, 0) \notin {0, 255}
        /\ \E name_area \in {Slice(r.p, 5, 13)} :
              Contains(name_area, TxtBOOT) \/ Contains(name_area, TxtSYS)

is_newdos_system ==
    \E r \in {DiskRead(DEFAULT_DIR_TRACK, 0)} :
        Truthy(r) /\ ByteAt(r.p, 0) \in newdos_opcodes

\* the entry at index i (0..7) of a whole directory sector p, with the bytes
\* the scans look at
RawEntry(p, i) ==
    LET off == i * EntrySize
    IN  [attr |-> ByteAt(p, off), b1 |-> ByteAt(p, off + 1),
         eof_low |-> ByteAt(p, off + 3),
         name |-> [k \in 1..8 |-> ByteAt(p, off + 4 + k)],
         ext |-> [k \in 1..3 |-> ByteAt(p, off + 12 + k)],
         eof_mid |-> ByteAt(p, off + 20), eof_high |-> ByteAt(p, off + 21),
         extents |-> [k \in 1..(2 * MaxExtents) |-> ByteAt(p, off + 21 + k)]]

\* the test of _count_valid_entries on one entry
ValidEntry(e) ==
    /\ ~(e.attr = 0 \/ e.attr = 255)
    /\ ~HasBit80(e.attr)
    /\ IsAlnum(e.name[1])
    /\ \A k \in 1..8 : e.name[k] = 0 \/ IsPrintable(e.name[k])
    /\ \A k \in 1..3 : IsAlnum(e.ext[k]) \/ e.ext[k] = SPACE

count_valid_entries(p) ==
    Cardinality({i \in 0..(SlotsPerSector - 1) :
                    \E e \in {RawEntry(p, i)} : ValidEntry(e)})

check_directory_track(track) ==
    \E s \in 2..5 :
        \E r \in {DiskRead(track, s)} :
            Truthy(r) /\ count_valid_entries(r.p) > 0

scan_for_directory ==
    CHOOSE v \in {IF found = {} THEN None ELSE Some(SetMin(found)) :
                    found \in {{t \in 0..(SCAN_TRACKS - 1) :
                                  t \notin {DEFAULT_DIR_TRACK, MODEL3_DIR_TRACK}
                                  /\ check_directory_track(t)}}} : TRUE

\* step 1 of _analyze: dir_track, dir_sector_offset and system_type, from the
\* values __init__ gave them
AnalyzeDirectory ==
    LET keep == [dir_track |-> dir_track, dir_sector_offset |-> dir_sector_offset,
                 system_type |-> system_type]
        set(t, o, st) == [dir_track |-> t, dir_sector_offset |-> o, system_type |-> st]
        scanned(found_track) ==
            IF ~IsNone(found_track)
            THEN set(Val(found_track),
                     IF Truthy(DiskRead(Val(found_track), 0)) THEN 0 ELSE 1,
                     "Detected (Track " \o ToString(Val(found_track)) \o ")")
            ELSE IF handler = "JV1"
            THEN [keep EXCEPT !.dir_track = DEFAULT_DIR_TRACK,
                              !.system_type = "Model I"]
            ELSE [keep EXCEPT
                    !.dir_sector_offset =
                        IF Truthy(DiskRead(0, 0)) THEN 0
                        ELSE IF Truthy(DiskRead(0, 1)) THEN 1 ELSE @,
                    !.system_type = "Unknown (Assumed Model I)"]
    IN  IF check_gat(DEFAULT_DIR_TRACK, 0) THEN set(DEFAULT_DIR_TRACK, 0, "Model I")
        ELSE IF check_gat(DEFAULT_DIR_TRACK, 1)
        THEN set(DEFAULT_DIR_TRACK, 1, "Model I (1-based)")
        ELSE IF check_gat(MODEL3_DIR_TRACK, 0) THEN set(MODEL3_DIR_TRACK, 0, "Model III/4")
        ELSE IF check_gat(MODEL3_DIR_TRACK, 1)
        THEN set(MODEL3_DIR_TRACK, 1, "Model III/4 (1-based)")
        ELSE IF is_t9_dir THEN set(NEWDOS_DIR_TRACK, 0, "NEWDOS/80 (Track 9)")
        ELSE IF is_newdos_system THEN set(DEFAULT_DIR_TRACK, 0, "NEWDOS/80 (System)")
        ELSE CHOOSE v \in {scanned(found_track) :
                             found_track \in {scan_for_directory}} : TRUE

\* list_files() returns at least one file, for the directory found
FilesListed(a) ==
    \E sector \in ScanFirstOf(a.system_type, a.dir_sector_offset)
                  ..ScanLastOf(a.system_type, a.dir_sector_offset) :
        \E r \in {DiskRead(a.dir_track, sector)} :
            /\ Truthy(r)
            /\ \E i \in 0..(SlotsPerSector - 1) :
                  \E e \in {RawEntry(r.p, i)} : Listed(e)

\* the printable characters of a sector, joined
PrintableText(p) == SelectSeq(p, LAMBDA run : IsPrintable(run[1]))

\* steps 2 and 3 of _analyze: detected_os. A list of files makes f.split
\* fail on its first record (the records are dicts), which sets "Read Error"
AnalyzeOs(a) ==
    LET by_files(listed) == IF listed THEN "Read Error" ELSE "Unknown / Non-Bootable"
        by_text(text, listed) ==
            IF Contains(text, TxtNEWDOS) THEN "NEWDOS/80 (Boot Signature)"
            ELSE IF Contains(text, TxtLDOS) THEN "LDOS (Boot Signature)"
            ELSE IF Contains(text, TxtRS) \/ Contains(text, TxtRadioShack)
            THEN "TRSDOS (Boot Signature)"
            ELSE IF Contains(text, TxtDiskError) \/ Contains(text, TxtNoSystem)
            THEN "TRSDOS (Boot Signature)"
            ELSE by_files(listed)
        os(listed, boot) ==
            IF ~Truthy(boot) THEN by_files(listed)
            ELSE IF ~listed /\ ByteAt(boot.p, 0) \in boot_opcodes
            THEN "Booter / Non-Standard FS"
            ELSE CHOOSE v \in {by_text(text, listed) :
                                 text \in {PrintableText(boot.p)}} : TRUE
    IN  CHOOSE v \in {os(listed, boot) :
                        listed \in {FilesListed(a)},
                        boot \in {DiskRead(0, a.dir_sector_offset)}} : TRUE

-----------------------------------------------------------------------------
(* Inputs and initial images *)

\* "A/B", "a/b", "C"
FileNames == {<<65, 47, 66>>, <<97, 47, 98>>, <<67>>}

\* contents: n bytes of one value, <<value, n>>
ContentSpecs == {<<65, 0>>, <<66, 2>>, <<67, 5>>, <<68, 258>>, <<69, 1281>>}
Contents == {Fill(c[1], c[2]) : c \in ContentSpecs}

\* an image with every granule free and an empty directory
EmptyImage ==
    [gat |-> [i \in 1..GatLen |-> GAT_FREE],
     dir |-> [s \in DirSectorNums |-> [i \in 1..SlotsPerSector |-> ZeroSlot]],
     data |-> [t \in Tracks |-> [s \in 0..(JV1SectorsPerTrack - 1) |-> ZeroSector]]]

\* an entry of an empty file without extents, named "E<k>"
EmptyFileEntry(k) ==
    [ZeroSlot EXCEPT !.attr = ATTR_IN_USE,
                     !.name = <<69, 48 + k, 32, 32, 32, 32, 32, 32>>,
                     !.ext = <<32, 32, 32>>,
                     !.extents = [i \in 1..(2 * MaxExtents) |->
                                     IF i = 1 THEN EXTENT_END ELSE 0]]

\* an image whose first directory sector holds seven empty files, every
\* granule free
SevenFilesImage ==
    [EmptyImage EXCEPT !.dir[DirScanStart] =
        [i \in 1..SlotsPerSector |->
            IF i < SlotsPerSector THEN EmptyFileEntry(i) ELSE ZeroSlot]]

InitImages == {EmptyImage, SevenFilesImage}

\* an image with an empty directory whose only free granules are granule 0 of
\* tracks 1 to 6; every other GAT byte is 0xFE
SixSinglesImage ==
    [EmptyImage EXCEPT !.gat =
        [i \in 1..GatLen |->
            IF (i - 1) % GranulesPerTrack = 0
               /\ (i - 1) \div GranulesPerTrack \in 1..(MaxExtents + 1)
            THEN GAT_FREE ELSE GAT_RESERVED]]

\* contents of 5 granules exactly and of one byte more
LargeContentSpecs ==
    {<<70, MaxExtents * SectorsPerGranule * SECTOR_SIZE>>,
     <<71, MaxExtents * SectorsPerGranule * SECTOR_SIZE + 1>>}
LargeContents == {Fill(c[1], c[2]) : c \in LargeContentSpecs}

AllocImages == {EmptyImage, SevenFilesImage, SixSinglesImage}

\* no sector call yet
NoSectorOp == [op |-> "none", addr |-> <<0, 0, 0>>, rd |-> NoData, payload |-> <<>>,
               ok |-> FALSE, raised |-> FALSE, before |-> <<>>]

NoOp == [op |-> "none", name |-> <<>>, content |-> <<>>, ok |-> FALSE,
         err |-> "", free_before |-> 0, existed |-> FALSE, extents |-> <<>>]

\* no mount-layer call yet
NoFuseOp == [op |-> "none", path |-> <<>>, buf |-> <<>>, offset |-> 0,
             ret |-> "", n |-> 0]

\* a map without keys
EmptyMap == [q \in {} |-> <<>>]

\* detect_format has not been called
NotDetected ==
    /\ image_file = <<>>
    /\ header = <<>>
    /\ detected = "none"

\* no mount layer over the file system
NotMounted ==
    /\ files = EmptyMap
    /\ buffers = EmptyMap
    /\ failed_paths = {}
    /\ fuse = NoFuseOp

\* the state after TRSDOSFileSystem(disk) on a Model I image
InitFrom(images) ==
    /\ mem \in images
    /\ disk = mem
    /\ dir_track = DIR_TRACK_TRSDOS
    /\ dir_sector_offset = 0
    /\ system_type = "Model I"
    /\ last = NoOp
    /\ prev = NoOp
    /\ ops = 0
    /\ handler = "JV1"
    /\ self_data = <<>>
    /\ track_len = 0
    /\ is_single_sided = TRUE
    /\ sector_map = {}
    /\ sec = NoSectorOp
    /\ detected_os = IF ListFiles(mem) = <<>>
                     THEN "Booter / Non-Standard FS" ELSE "Read Error"
    /\ NotMounted
    /\ NotDetected

Init == InitFrom(InitImages)

-----------------------------------------------------------------------------
(* Actions: one call of a public operation. last records the call, what it   *)
(* returned, and what the caller could observe just before it                *)
(* (get_free_space(), whether an entry matched the name); prev is the call   *)
(* before it.                                                                *)

\* write_file(f, c)
WriteCall(f, c) ==
    /\ \E r \in {WriteFile(mem, disk, f, c)} :
          /\ mem' = r.mem
          /\ disk' = r.disk
          /\ last' = [op |-> "write", name |-> f, content |-> c, ok |-> r.ok,
                      err |-> r.err, free_before |-> GetFreeSpace(mem),
                      existed |-> ~IsNone(FindEntry(mem, f)),
                      extents |-> r.extents]
    /\ prev' = last
    /\ ops' = ops + 1
    /\ UNCHANGED <<dir_track, dir_sector_offset, system_type, detected_os>>
    /\ UNCHANGED sectorVars
    /\ UNCHANGED fuseVars
    /\ UNCHANGED detectVars

WriteFileOp ==
    /\ ops < MaxOps
    /\ \E f \in FileNames, c \in Contents : WriteCall(f, c)

\* "A/B", "C"
LargeFileNames == {<<65, 47, 66>>, <<67>>}

\* write_file with a content of several granules
WriteLargeFileOp ==
    /\ ops < MaxAllocOps
    /\ \E f \in LargeFileNames, c \in LargeContents : WriteCall(f, c)

DeleteFileOp ==
    /\ ops < MaxOps
    /\ \E f \in FileNames :
          \E r \in {DeleteFile(mem, disk, f)} :
              /\ mem' = r.mem
              /\ disk' = r.disk
              /\ last' = [op |-> "delete", name |-> f, content |-> <<>>,
                          ok |-> r.ok, err |-> "", free_before |-> GetFreeSpace(mem),
                          existed |-> ~IsNone(FindEntry(mem, f)),
                          extents |-> <<>>]
    /\ prev' = last
    /\ ops' = ops + 1
    /\ UNCHANGED <<dir_track, dir_sector_offset, system_type, detected_os>>
    /\ UNCHANGED sectorVars
    /\ UNCHANGED fuseVars
    /\ UNCHANGED detectVars

Next == WriteFileOp \/ DeleteFileOp

Spec == Init /\ [][Next]_vars

\* the behaviours that start from the empty file system
SpecEmpty == InitFrom({EmptyImage}) /\ [][Next]_vars

\* the behaviours with large files, from empty, nearly full directory and
\* fragmented images
NextAlloc == WriteLargeFileOp \/ DeleteFileOp

SpecAlloc == InitFrom(AllocImages) /\ [][NextAlloc]_vars

\* the image after write_file("A/B", b"CCCCC") and write_file("a/b", b"BB") on
\* the empty file system: two entries named A/B, on granules 0 and 1 of
\* track 1
TwoWritesEntry(eof_low, info) ==
    [ZeroSlot EXCEPT !.attr = ATTR_IN_USE,
                     !.name = <<65, 32, 32, 32, 32, 32, 32, 32>>,
                     !.ext = <<66, 32, 32>>,
                     !.eof_low = eof_low, !.eof_mid = 1,
                     !.extents = [i \in 1..(2 * MaxExtents) |->
                                     IF i = 1 THEN 1
                                     ELSE IF i = 2 THEN info
                                     ELSE IF i = 3 THEN EXTENT_END ELSE 0]]

TwoWritesImage ==
    [EmptyImage EXCEPT
        !.gat = [i \in 1..GatLen |->
                    IF i \in {GranulesPerTrack + 1, GranulesPerTrack + 2}
                    THEN GAT_RESERVED ELSE GAT_FREE],
        !.dir[DirScanStart] =
            [i \in 1..SlotsPerSector |->
                IF i = 1 THEN TwoWritesEntry(3, 0)
                ELSE IF i = 2 THEN TwoWritesEntry(0, 32) ELSE ZeroSlot],
        !.data[1] =
            [s \in 0..(JV1SectorsPerTrack - 1) |->
                IF s = 0 THEN Cat(Fill(67, 5), Fill(0, SECTOR_SIZE - 5))
                ELSE IF s = SectorsPerGranule
                THEN Cat(Fill(66, 2), Fill(0, SECTOR_SIZE - 2))
                ELSE ZeroSector]]

\* the file system after those two calls
InitTwoWrites ==
    /\ dir_track = DIR_TRACK_TRSDOS
    /\ dir_sector_offset = 0
    /\ system_type = "Model I"
    /\ detected_os = "Booter / Non-Standard FS"
    /\ mem = TwoWritesImage
    /\ disk = mem
    /\ last = NoOp
    /\ prev = NoOp
    /\ ops = 0
    /\ handler = "JV1"
    /\ self_data = <<>>
    /\ track_len = 0
    /\ is_single_sided = TRUE
    /\ sector_map = {}
    /\ sec = NoSectorOp
    /\ NotMounted
    /\ NotDetected

\* the behaviours that go on from there
SpecTwoWrites == InitTwoWrites /\ [][Next]_vars

-----------------------------------------------------------------------------
(* The mount layer, TRSDOS_FUSE (trs80_fuse.py): a write-back cache over the  *)
(* file system. files maps "NAME.EXT" to "NAME/EXT", buffers maps a path to   *)
(* the bytes written and not yet committed. getattr, readdir, read, statfs,   *)
(* access, chmod, chown and utimens change nothing and are left out.          *)

DOT == 46
O_WRONLY == 1
O_RDWR == 2

\* f with key k set to v, and without key k
With(f, k, v) == [q \in DOMAIN f \cup {k} |-> IF q = k THEN v ELSE f[q]]
Without(f, k) == [q \in DOMAIN f \ {k} |-> f[q]]

\* index of the last '.' in s, 0 if there is none
RECURSIVE LastDot(_, _)
LastDot(s, i) == IF i < 1 THEN 0 ELSE IF s[i] = DOT THEN i ELSE LastDot(s, i - 1)

\* the file name a listed "NAME/EXT" is shown under
HostName(trsdos_name) ==
    LET k == FirstSlash(trsdos_name, 1)
    IN  IF k > 0
        THEN SubSeq(trsdos_name, 1, k - 1) \o <<DOT>>
               \o SubSeq(trsdos_name, k + 1, Len(trsdos_name))
        ELSE trsdos_name

\* _refresh_files: self.files from list_files(), a later file replacing an
\* earlier one of the same host name
RefreshFiles(img) ==
    LET file_list == ListFiles(img)
        names == {HostName(file_list[k].name) : k \in 1..Len(file_list)}
    IN  [fn \in names |->
            LET ks == {k \in 1..Len(file_list) : HostName(file_list[k].name) = fn}
            IN  file_list[CHOOSE k \in ks : \A j \in ks : j <= k].name]

\* _get_trsdsk_name
GetTrsdskName(fmap, path) ==
    LET filename == Tail(path)
        k == LastDot(filename, Len(filename))
    IN  IF filename \in DOMAIN fmap THEN fmap[filename]
        ELSE IF k > 0
        THEN Upper(SubSeq(filename, 1, k - 1) \o <<SLASH>>
                     \o SubSeq(filename, k + 1, Len(filename)))
        ELSE Upper(filename \o <<SLASH, SPACE, SPACE, SPACE>>)

\* the sum over every buffer, the path's own included
TotalBufferedAll(bufs, path) ==
    LET RECURSIVE Sum(_)
        Sum(S) == IF S = {} THEN 0
                  ELSE LET q == CHOOSE x \in S : TRUE
                       IN  BLen(bufs[q]) + Sum(S \ {q})
    IN  Sum(DOMAIN bufs)

\* sum(len(b) for p, b in self.buffers.items() if p != path)
TotalBuffered(bufs, path) ==
    LET RECURSIVE Sum(_)
        Sum(S) == IF S = {} THEN 0
                  ELSE LET q == CHOOSE x \in S : TRUE
                       IN  BLen(bufs[q]) + Sum(S \ {q})
    IN  Sum(DOMAIN bufs \ {path})

\* open(path, flags): the buffers afterwards
OpenBuffers(img, fmap, bufs, path, flags) ==
    IF (flags = O_WRONLY \/ flags = O_RDWR) /\ path \notin DOMAIN bufs
    THEN IF Tail(path) \in DOMAIN fmap
         THEN LET content == ReadFile(img, fmap[Tail(path)])
              IN  With(bufs, path,
                       IF IsNone(content) THEN <<>> ELSE Val(content))
         ELSE With(bufs, path, <<>>)
    ELSE bufs

\* write(path, buf, offset, fh): the buffers and failed paths afterwards, and
\* the outcome: "ok" with the value returned, or FuseOSError(ENOSPC)
FuseWrite(img, bufs, failed, path, buf, offset) ==
    LET bufs1 == IF path \in DOMAIN bufs THEN bufs ELSE With(bufs, path, <<>>)
        end == offset + BLen(buf)
        total_buffered == TotalBuffered(bufs1, path)
        free_space == GetFreeSpace(img)
        grown == IF end > BLen(bufs1[path])
                 THEN Cat(bufs1[path], Fill(0, end - BLen(bufs1[path])))
                 ELSE bufs1[path]
    IN  IF total_buffered + end > free_space
        THEN [buffers |-> Without(bufs1, path), failed |-> failed \cup {path},
              ret |-> "ENOSPC", n |-> 0]
        ELSE [buffers |-> With(bufs1, path, SliceAssign(grown, offset, end, buf)),
              failed |-> failed, ret |-> "ok", n |-> BLen(buf)]

\* paths "/A.B", "/X", "/E1."
FusePaths == {<<47, 65, 46, 66>>, <<47, 88>>, <<47, 69, 49, 46>>}
FuseBufs == {Fill(1, 1000)}
FuseOffsets == {0, 1000}
FuseFlags == {0, O_WRONLY}
FuseLengths == {500, 3000}

\* an image with an empty directory whose only free granules are granule 0 of
\* tracks 1 and 2
TwoSinglesImage ==
    [EmptyImage EXCEPT !.gat =
        [i \in 1..GatLen |->
            IF (i - 1) % GranulesPerTrack = 0
               /\ (i - 1) \div GranulesPerTrack \in 1..2
            THEN GAT_FREE ELSE GAT_RESERVED]]

FuseImages == {TwoSinglesImage, SevenFilesImage}

\* TRSDOS_FUSE.__init__ on a Model I JV1 image
InitFuse ==
    /\ mem \in FuseImages
    /\ disk = mem
    /\ dir_track = DIR_TRACK_TRSDOS
    /\ dir_sector_offset = 0
    /\ system_type = "Model I"
    /\ detected_os = IF ListFiles(mem) = <<>>
                     THEN "Booter / Non-Standard FS" ELSE "Read Error"
    /\ last = NoOp
    /\ prev = NoOp
    /\ ops = 0
    /\ handler = "JV1"
    /\ self_data = <<>>
    /\ track_len = 0
    /\ is_single_sided = TRUE
    /\ sector_map = {}
    /\ sec = NoSectorOp
    /\ files = RefreshFiles(mem)
    /\ buffers = EmptyMap
    /\ failed_paths = {}
    /\ fuse = NoFuseOp
    /\ NotDetected

FuseRecord(op, path, buf, offset, ret, n) ==
    [op |-> op, path |-> path, buf |-> buf, offset |-> offset, ret |-> ret, n |-> n]

\* what every mount-layer call leaves alone; last and prev record the direct
\* calls of the file system only
FuseFrame ==
    /\ ops' = ops + 1
    /\ UNCHANGED <<dir_track, dir_sector_offset, system_type, detected_os,
                   last, prev>>
    /\ UNCHANGED sectorVars
    /\ UNCHANGED detectVars

\* create(path, mode)
FuseCreateOp ==
    /\ ops < MaxFuseOps
    /\ \E path \in FusePaths :
          /\ buffers' = With(buffers, path, <<>>)
          /\ failed_paths' = failed_paths \ {path}
          /\ fuse' = FuseRecord("create", path, <<>>, 0, "ok", 0)
    /\ UNCHANGED <<mem, disk, files>>
    /\ FuseFrame

\* open(path, flags)
FuseOpenOp ==
    /\ ops < MaxFuseOps
    /\ \E path \in FusePaths, flags \in FuseFlags :
          /\ buffers' = OpenBuffers(mem, files, buffers, path, flags)
          /\ failed_paths' = failed_paths \ {path}
          /\ fuse' = FuseRecord("open", path, <<>>, flags, "ok", 0)
    /\ UNCHANGED <<mem, disk, files>>
    /\ FuseFrame

\* write(path, buf, offset, fh)
FuseWriteOp ==
    /\ ops < MaxFuseOps
    /\ \E path \in FusePaths, buf \in FuseBufs, offset \in FuseOffsets :
          \E r \in {FuseWrite(mem, buffers, failed_paths, path, buf, offset)} :
              /\ buffers' = r.buffers
              /\ failed_paths' = r.failed
              /\ fuse' = FuseRecord("write", path, buf, offset, r.ret, r.n)
    /\ UNCHANGED <<mem, disk, files>>
    /\ FuseFrame

\* truncate(path, length): the buffer is loaded as open(path, O_RDWR) does,
\* then cut, or grown with zeros unless length > get_free_space()
FuseTruncateOp ==
    /\ ops < MaxFuseOps
    /\ \E path \in FusePaths, length \in FuseLengths :
          \E bufs1 \in {IF path \in DOMAIN buffers THEN buffers
                        ELSE OpenBuffers(mem, files, buffers, path, O_RDWR)} :
              LET b == bufs1[path]
                  refused == BLen(b) < length /\ length > GetFreeSpace(mem)
              IN  /\ buffers' =
                        IF BLen(b) > length THEN With(bufs1, path, Take(b, length))
                        ELSE IF BLen(b) < length /\ ~refused
                        THEN With(bufs1, path, Cat(b, Fill(0, length - BLen(b))))
                        ELSE bufs1
                  /\ failed_paths' = IF path \in DOMAIN buffers THEN failed_paths
                                     ELSE failed_paths \ {path}
                  /\ fuse' = FuseRecord("truncate", path, <<>>, length,
                                        IF refused THEN "ENOSPC" ELSE "ok", 0)
    /\ UNCHANGED <<mem, disk, files>>
    /\ FuseFrame

\* unlink(path)
FuseUnlinkOp ==
    /\ ops < MaxFuseOps
    /\ \E path \in FusePaths :
          \E r \in {IF Tail(path) \in DOMAIN files
                     THEN DeleteFile(mem, disk, files[Tail(path)])
                     ELSE [mem |-> mem, disk |-> disk, ok |-> FALSE]} :
              /\ buffers' = Without(buffers, path)
              /\ mem' = r.mem
              /\ disk' = r.disk
              /\ files' = IF r.ok THEN RefreshFiles(r.mem) ELSE files
              /\ fuse' = FuseRecord("unlink", path, <<>>, 0, "ok", 0)
    /\ UNCHANGED failed_paths
    /\ FuseFrame

\* release(path, fh): the buffer is committed with write_file, or dropped when
\* it is longer than the free space or write_file raises
FuseReleaseOp ==
    /\ ops < MaxFuseOps
    /\ \E path \in FusePaths :
          IF path \notin DOMAIN buffers
          THEN /\ UNCHANGED <<mem, disk, files, buffers, failed_paths>>
               /\ fuse' = FuseRecord("release", path, <<>>, 0, "ok", 0)
          ELSE IF BLen(buffers[path]) > GetFreeSpace(mem)
          THEN /\ UNCHANGED <<mem, disk, files>>
               /\ buffers' = Without(buffers, path)
               /\ failed_paths' = failed_paths \cup {path}
               /\ fuse' = FuseRecord("release", path, <<>>, 0, "full", 0)
          ELSE \E r \in {WriteFile(mem, disk, GetTrsdskName(files, path),
                                   buffers[path])} :
                  /\ mem' = r.mem
                  /\ disk' = r.disk
                  /\ buffers' = Without(buffers, path)
                  /\ files' = IF r.ok THEN RefreshFiles(r.mem) ELSE files
                  /\ failed_paths' = IF r.ok THEN failed_paths
                                     ELSE failed_paths \cup {path}
                  /\ fuse' = FuseRecord("release", path, <<>>, 0,
                                        IF r.ok THEN "ok" ELSE r.err, 0)
    /\ FuseFrame

NextFuse ==
    \/ FuseCreateOp
    \/ FuseOpenOp
    \/ FuseWriteOp
    \/ FuseTruncateOp
    \/ FuseUnlinkOp
    \/ FuseReleaseOp

SpecFuse == InitFuse /\ [][NextFuse]_vars

\* the image release("/A.B") leaves on SevenFilesImage after
\* write("/A.B", 1000 bytes, 0): A/B in the last slot of the directory sector,
\* its bytes in granule 0 of track 1
EightFilesImage ==
    [SevenFilesImage EXCEPT
        !.gat[GranulesPerTrack + 1] = GAT_RESERVED,
        !.dir[DirScanStart][SlotsPerSector] =
            NewEntry(<<65, 47, 66>>, 1000, <<<<1, 0, 1>>>>),
        !.data[1] =
            [s \in 0..(JV1SectorsPerTrack - 1) |->
                IF s < 3 THEN Fill(1, SECTOR_SIZE)
                ELSE IF s = 3
                THEN Cat(Fill(1, 1000 - 3 * SECTOR_SIZE),
                         Fill(0, 4 * SECTOR_SIZE - 1000))
                ELSE ZeroSector]]

\* the mount layer over that image
InitFuseFull ==
    /\ dir_track = DIR_TRACK_TRSDOS
    /\ dir_sector_offset = 0
    /\ system_type = "Model I"
    /\ detected_os = "Read Error"
    /\ mem = EightFilesImage
    /\ disk = mem
    /\ last = NoOp
    /\ prev = NoOp
    /\ ops = 0
    /\ handler = "JV1"
    /\ self_data = <<>>
    /\ track_len = 0
    /\ is_single_sided = TRUE
    /\ sector_map = {}
    /\ sec = NoSectorOp
    /\ files = RefreshFiles(mem)
    /\ buffers = EmptyMap
    /\ failed_paths = {}
    /\ fuse = NoFuseOp
    /\ NotDetected

SpecFuseFull == InitFuseFull /\ [][NextFuse]_vars

\* an image with an empty directory whose only free granule is granule 0 of
\* track 1
OneSingleImage ==
    [EmptyImage EXCEPT !.gat =
        [i \in 1..GatLen |->
            IF i = GranulesPerTrack + 1 THEN GAT_FREE ELSE GAT_RESERVED]]

\* the mount layer over an image with one free granule
InitFuseTight ==
    /\ dir_track = DIR_TRACK_TRSDOS
    /\ dir_sector_offset = 0
    /\ system_type = "Model I"
    /\ detected_os = "Booter / Non-Standard FS"
    /\ mem = OneSingleImage
    /\ disk = mem
    /\ last = NoOp
    /\ prev = NoOp
    /\ ops = 0
    /\ handler = "JV1"
    /\ self_data = <<>>
    /\ track_len = 0
    /\ is_single_sided = TRUE
    /\ sector_map = {}
    /\ sec = NoSectorOp
    /\ files = RefreshFiles(mem)
    /\ buffers = EmptyMap
    /\ failed_paths = {}
    /\ fuse = NoFuseOp
    /\ NotDetected

SpecFuseTight == InitFuseTight /\ [][NextFuse]_vars

-----------------------------------------------------------------------------
(* Sector-level behaviours: write_sector calls, and read_sector followed by  *)
(* write_sector of what was read, on a JV1 or DMK buffer.                    *)

RECURSIVE CatAll(_)
CatAll(parts) == IF parts = <<>> THEN <<>> ELSE Cat(parts[1], CatAll(Tail(parts)))

\* one sector of a DMK track: IDAM (FE, track, side, sector, size, CRC), gap,
\* data address mark, 256 data bytes, CRC
DmkBlock(track, side, sector, mark) ==
    CatAll(<<Fill(254, 1), Fill(track, 1), Fill(side, 1), Fill(sector, 1),
             Fill(1, 1), Fill(0, 2), Fill(78, DmkGap), Fill(mark, 1),
             Fill(229, SECTOR_SIZE), Fill(0, 2)>>)

DmkBlockLen == BLen(DmkBlock(0, 0, 0, DAM_NORMAL))
DmkTableLen == IDAM_ENTRIES * 2
DmkImageTrackLen == DmkTableLen + 2 * DmkBlockLen

\* the IDAM pointer table of a track with two sectors; the second pointer
\* carries the double-density flag bit 15
DmkTable ==
    LET p0 == DmkTableLen
        p1 == DmkTableLen + DmkBlockLen + 32768
    IN  CatAll(<<Fill(p0 % 256, 1), Fill(p0 \div 256, 1),
                 Fill(p1 % 256, 1), Fill(p1 \div 256, 1),
                 Fill(0, DmkTableLen - 4)>>)

DmkTrack(track, side) ==
    CatAll(<<DmkTable, DmkBlock(track, side, 0, DAM_NORMAL),
             DmkBlock(track, side, 1, DAM_DELETED)>>)

DmkHeader(tracks, flags) ==
    CatAll(<<Fill(0, 1), Fill(tracks, 1), Fill(DmkImageTrackLen % 256, 1),
             Fill(DmkImageTrackLen \div 256, 1), Fill(flags, 1),
             Fill(0, DMK_HEADER_SIZE - 5)>>)

\* two single-sided tracks, flagged single sided
DmkFlaggedImage == CatAll(<<DmkHeader(2, DMK_SS_FLAG), DmkTrack(0, 0), DmkTrack(1, 0)>>)
\* the same without the flag: single sided because the size matches
DmkSizedImage == CatAll(<<DmkHeader(2, 0), DmkTrack(0, 0), DmkTrack(1, 0)>>)
\* one cylinder with two sides
DmkTwoSidedImage == CatAll(<<DmkHeader(1, 0), DmkTrack(0, 0), DmkTrack(0, 1)>>)
\* images cut short inside the last sector's data and inside its gap
DmkCuts == {100, SECTOR_SIZE + 4}
DmkCutImages == {Take(DmkFlaggedImage, BLen(DmkFlaggedImage) - c) : c \in DmkCuts}

DmkImages == {DmkFlaggedImage, DmkSizedImage, DmkTwoSidedImage} \cup DmkCutImages

Jv1FullImage == Fill(229, JV1Tracks * JV1SectorsPerTrack * SECTOR_SIZE)
Jv1Images == {Jv1FullImage, Take(Jv1FullImage, BLen(Jv1FullImage) - 100)}

\* one JV3 record: the header (track, sector, flags) and n data bytes
Jv3Record(track, sector, flags, fill, n) ==
    CatAll(<<Fill(track, 1), Fill(sector, 1), Fill(flags, 1), Fill(fill, n)>>)

\* sector (0, 0, 0), an unused record of size code 1, sector 0 of track 0
\* side 1 (flag bit 4)
Jv3FullImage ==
    CatAll(<<Jv3Record(0, 0, 0, 229, SECTOR_SIZE),
             Jv3Record(JV3_FREE, 0, 1, 0, SECTOR_SIZE),
             Jv3Record(0, 0, 16, 230, SECTOR_SIZE)>>)
Jv3Images == {Jv3FullImage, Take(Jv3FullImage, BLen(Jv3FullImage) - 100)}

\* <<track, side, sector>> arguments and payloads of the calls
SectorAddrs == {<<0, 0, 0>>, <<1, 0, 1>>, <<0, 1, 0>>, <<0, 0, -1>>,
                <<-1, 0, 0>>, <<1, 0, 10>>, <<2, 0, 0>>}
SectorPayloads == {Fill(1, SECTOR_SIZE), Fill(3, SECTOR_SIZE - 1)}

InitSector ==
    /\ \/ handler = "JV1" /\ self_data \in Jv1Images
          /\ track_len = 0 /\ is_single_sided = TRUE /\ sector_map = {}
       \/ handler = "JV3" /\ self_data \in Jv3Images
          /\ track_len = 0 /\ is_single_sided = TRUE
          /\ sector_map = JV3ParseImage(self_data)
       \/ handler = "DMK" /\ self_data \in DmkImages
          /\ track_len = DMKTrackLen(self_data)
          /\ is_single_sided = DMKSingleSided(self_data)
          /\ sector_map = {}
    /\ sec = NoSectorOp
    /\ ops = 0
    /\ mem = EmptyImage
    /\ disk = mem
    /\ dir_track = DIR_TRACK_TRSDOS
    /\ dir_sector_offset = 0
    /\ system_type = "Model I"
    /\ detected_os = "Booter / Non-Standard FS"
    /\ last = NoOp
    /\ prev = NoOp
    /\ NotMounted
    /\ NotDetected

\* write_sector(track, side, sector, payload)
SectorWriteOp ==
    /\ ops < MaxSectorOps
    /\ \E a \in SectorAddrs, p \in SectorPayloads :
          \E r \in {WriteSector(handler, self_data, track_len, is_single_sided,
                                sector_map, a[1], a[2], a[3], p)} :
              /\ self_data' = r.buf
              /\ sec' = [op |-> "write", addr |-> a, rd |-> NoData, payload |-> p,
                         ok |-> r.ok, raised |-> r.raised, before |-> self_data]
    /\ ops' = ops + 1
    /\ UNCHANGED <<handler, track_len, is_single_sided, sector_map>>
    /\ UNCHANGED fsVars
    /\ UNCHANGED fuseVars
    /\ UNCHANGED detectVars

\* p = read_sector(track, side, sector); if p is a payload,
\* write_sector(track, side, sector, p)
SectorReadBackOp ==
    /\ ops < MaxSectorOps
    /\ \E a \in SectorAddrs :
          \E rd \in {ReadSector(handler, self_data, track_len, is_single_sided,
                                 sector_map, a[1], a[2], a[3])} :
          \E r \in {IF rd.kind = "data"
                     THEN WriteSector(handler, self_data, track_len,
                                      is_single_sided, sector_map,
                                      a[1], a[2], a[3], rd.p)
                     ELSE [buf |-> self_data, ok |-> FALSE, raised |-> FALSE]} :
              /\ self_data' = r.buf
              /\ sec' = [op |-> "readback", addr |-> a, rd |-> rd, payload |-> rd.p,
                         ok |-> r.ok, raised |-> r.raised, before |-> self_data]
    /\ ops' = ops + 1
    /\ UNCHANGED <<handler, track_len, is_single_sided, sector_map>>
    /\ UNCHANGED fsVars
    /\ UNCHANGED fuseVars
    /\ UNCHANGED detectVars

NextSector == SectorWriteOp \/ SectorReadBackOp

SpecSector == InitSector /\ [][NextSector]_vars

-----------------------------------------------------------------------------
(* Construction: __init__ has set the defaults, _analyze runs once on the     *)
(* disk. The disks are JV3 images assembled from optional sector records, and *)
(* JV1 images; every sector is whole.                                         *)

\* a JV3 record of 256 data bytes on side 0
Jv3SectorRecord(track, sector, payload) ==
    CatAll(<<Fill(track, 1), Fill(sector, 1), Fill(0, 1), payload>>)

SecFF == Fill(255, SECTOR_SIZE)
SecMarker3F == Cat(Fill(63, 1), Fill(0, SECTOR_SIZE - 1))
\* a first byte C3 (JP)
SecCode == Cat(Fill(195, 1), Fill(0, SECTOR_SIZE - 1))
\* "TRSDOS" at offset 0xD0
SecTrsdosText ==
    CatAll(<<Fill(0, 208), Fill(84, 1), Fill(82, 1), Fill(83, 1), Fill(68, 1),
             Fill(79, 1), Fill(83, 1), Fill(0, SECTOR_SIZE - 214)>>)
\* a directory sector whose first entry is BOOT/SYS, attribute 0x10, no extents
SecDir ==
    CatAll(<<Fill(ATTR_IN_USE, 1), Fill(0, 4),
             Fill(66, 1), Fill(79, 2), Fill(84, 1), Fill(SPACE, 4),
             Fill(83, 1), Fill(89, 1), Fill(83, 1), Fill(0, 6),
             Fill(EXTENT_END, 1), Fill(0, SECTOR_SIZE - 23)>>)
\* a boot sector starting with FE and holding "R.S."
SecBootRS ==
    CatAll(<<Fill(254, 1), Fill(0, 9), Fill(82, 1), Fill(46, 1), Fill(83, 1),
             Fill(46, 1), Fill(0, SECTOR_SIZE - 14)>>)

\* no record, or one record of each payload
Jv3Optional(track, sector, payloads) ==
    {<<>>} \cup {Jv3SectorRecord(track, sector, p) : p \in payloads}

AnalyzeJv3Images ==
    {CatAll(<<Jv3SectorRecord(1, 0, ZeroSector), boot, t5, t9, g0, g1, d2, m0>>) :
        boot \in Jv3Optional(0, 0, {SecBootRS}),
        t5 \in Jv3Optional(5, DirScanStart, {SecDir}),
        t9 \in Jv3Optional(NEWDOS_DIR_TRACK, NewdosScanStart, {SecDir}),
        g0 \in Jv3Optional(DEFAULT_DIR_TRACK, 0,
                           {SecFF, ZeroSector, SecCode, SecTrsdosText}),
        g1 \in Jv3Optional(DEFAULT_DIR_TRACK, 1, {SecFF, SecMarker3F, ZeroSector}),
        d2 \in Jv3Optional(DEFAULT_DIR_TRACK, DirScanStart, {SecDir}),
        m0 \in Jv3Optional(MODEL3_DIR_TRACK, 0, {SecFF})}

\* JV1 images of 18 tracks: all zero, 0xFF in sector 0 of track 17, 0xFF in
\* sector 1 of track 17 only
AnalyzeJv1Images ==
    {Fill(0, (DEFAULT_DIR_TRACK + 1) * JV1SectorsPerTrack * SECTOR_SIZE),
     CatAll(<<Fill(0, DEFAULT_DIR_TRACK * JV1SectorsPerTrack * SECTOR_SIZE),
              SecFF, Fill(0, (JV1SectorsPerTrack - 1) * SECTOR_SIZE)>>),
     CatAll(<<Fill(0, (DEFAULT_DIR_TRACK * JV1SectorsPerTrack + 1) * SECTOR_SIZE),
              SecFF, Fill(0, (JV1SectorsPerTrack - 2) * SECTOR_SIZE)>>)}

\* the state in __init__ before _analyze
InitAnalyze ==
    /\ \/ handler = "JV3" /\ self_data \in AnalyzeJv3Images
          /\ sector_map = JV3ParseImage(self_data)
       \/ handler = "JV1" /\ self_data \in AnalyzeJv1Images
          /\ sector_map = {}
    /\ track_len = 0
    /\ is_single_sided = TRUE
    /\ sec = NoSectorOp
    /\ ops = 0
    /\ mem = EmptyImage
    /\ disk = mem
    /\ dir_track = DEFAULT_DIR_TRACK
    /\ dir_sector_offset = 0
    /\ system_type = "Unknown"
    /\ detected_os = "Unknown"
    /\ last = NoOp
    /\ prev = NoOp
    /\ NotMounted
    /\ NotDetected

\* self._analyze()
AnalyzeOp ==
    /\ ops = 0
    /\ system_type = "Unknown"
    /\ \E a \in {AnalyzeDirectory} :
          /\ dir_track' = a.dir_track
          /\ dir_sector_offset' = a.dir_sector_offset
          /\ system_type' = a.system_type
          /\ detected_os' = AnalyzeOs(a)
    /\ ops' = ops + 1
    /\ UNCHANGED <<mem, disk, last, prev>>
    /\ UNCHANGED sectorVars
    /\ UNCHANGED fuseVars
    /\ UNCHANGED detectVars

NextAnalyze == AnalyzeOp

SpecAnalyze == InitAnalyze /\ [][NextAnalyze]_vars

-----------------------------------------------------------------------------
(* Format detection: detect_format(filename) reads the first 16 bytes of the   *)
(* file and picks the handler class. The file here is no longer than its       *)
(* header.                                                                     *)

DMK_HEADER_PEEK == 16
DMK_MAX_TRACK_LEN == 20000

LowerChar(c) == IF c >= 65 /\ c <= 90 THEN c + 32 ELSE c

\* s.lower().endswith(suffix)
LowerEndsWith(s, suffix) ==
    /\ Len(s) >= Len(suffix)
    /\ \A i \in 1..Len(suffix) :
          LowerChar(s[Len(s) - Len(suffix) + i]) = suffix[i]

\* ".dmk"
DmkSuffix == <<46, 100, 109, 107>>

\* detect_format: "DMK", "JV1", or "IndexError" when header[1], header[2] or
\* header[3] is read past the end of a short header
detect_format(name, hdr) ==
    IF LowerEndsWith(name, DmkSuffix)
    THEN IF ~InRange(BLen(hdr), 3) THEN "IndexError"
         ELSE LET num_tracks == Index(hdr, 1)
                  tlen == Index(hdr, 2) + Index(hdr, 3) * 256
              IN  IF num_tracks > 0 /\ num_tracks <= DMK_MAX_TRACKS
                     /\ tlen > 0 /\ tlen < DMK_MAX_TRACK_LEN
                  THEN "DMK" ELSE "JV1"
    ELSE "JV1"

\* "a.dmk", "A.DMK", "a.Dmk", "a.jv1", "dmk", "a.dmk.bak", "a.jv3"
DetectNames ==
    {<<97, 46, 100, 109, 107>>, <<65, 46, 68, 77, 75>>, <<97, 46, 68, 109, 107>>,
     <<97, 46, 106, 118, 49>>, <<100, 109, 107>>,
     <<97, 46, 100, 109, 107, 46, 98, 97, 107>>, <<97, 46, 106, 118, 51>>}

\* track counts and track lengths around the limits of the test
DetectTrackCounts == {0, 1, 40, DMK_MAX_TRACKS, DMK_MAX_TRACKS + 1, 255}
DetectTrackLens == {0, 1, 6400, DMK_MAX_TRACK_LEN - 1, DMK_MAX_TRACK_LEN, 65535}

\* a 16-byte header with the track count in byte 1 and the track length in
\* bytes 2 and 3
DetectHeader(n, tlen) ==
    CatAll(<<Fill(0, 1), Fill(n, 1), Fill(tlen % 256, 1), Fill(tlen \div 256, 1),
             Fill(0, DMK_HEADER_PEEK - 4)>>)

\* whole headers, and files shorter than four bytes
DetectHeaders ==
    {DetectHeader(n, tlen) : n \in DetectTrackCounts, tlen \in DetectTrackLens}
        \cup {Take(DetectHeader(1, 1), k) : k \in 0..3}

\* a file is there, no call yet
InitDetect ==
    /\ image_file \in DetectNames
    /\ header \in DetectHeaders
    /\ detected = "none"
    /\ ops = 0
    /\ mem = EmptyImage
    /\ disk = mem
    /\ dir_track = DEFAULT_DIR_TRACK
    /\ dir_sector_offset = 0
    /\ system_type = "Unknown"
    /\ detected_os = "Unknown"
    /\ last = NoOp
    /\ prev = NoOp
    /\ handler = "none"
    /\ self_data = <<>>
    /\ track_len = 0
    /\ is_single_sided = TRUE
    /\ sector_map = {}
    /\ sec = NoSectorOp
    /\ NotMounted

\* detect_format(filename)
DetectOp ==
    /\ detected = "none"
    /\ detected' = detect_format(image_file, header)
    /\ ops' = ops + 1
    /\ UNCHANGED <<image_file, header>>
    /\ UNCHANGED fsVars
    /\ UNCHANGED sectorVars
    /\ UNCHANGED fuseVars

NextDetect == DetectOp

SpecDetect == InitDetect /\ [][NextDetect]_vars

-----------------------------------------------------------------------------
(* JV3 images of three records: JV3Image.__init__ has read the file and set    *)
(* sector_map = {}; _parse_image walks the records, then sectors are read.     *)

\* Calls on one JV3 image: _parse_image, then read_sector.
MaxJv3Ops == 2

\* the data length the JV3 format gives a size code
Jv3DataLen(size_code) ==
    CASE size_code = 0 -> 256
      [] size_code = 1 -> 128
      [] size_code = 2 -> 1024
      [] OTHER -> 512

\* the first two records: in use or free, of any size code, with a payload of
\* the length of the size code
Jv3WalkRecords(track, sector, fill) ==
    {Jv3Record(t, sector, c, fill, Jv3DataLen(c)) : t \in {track, JV3_FREE}, c \in 0..3}

\* two such records, then sector (3, 0, 3) in a record of size code 0
Jv3WalkImages ==
    {CatAll(<<r1, r2, Jv3Record(3, 3, 0, 163, SECTOR_SIZE)>>) :
        r1 \in Jv3WalkRecords(1, 1, 161), r2 \in Jv3WalkRecords(2, 2, 162)}

Jv3WalkAddrs == {<<1, 0, 1>>, <<2, 0, 2>>, <<3, 0, 3>>}

InitJv3 ==
    /\ handler = "JV3"
    /\ self_data \in Jv3WalkImages
    /\ sector_map = {}
    /\ track_len = 0
    /\ is_single_sided = TRUE
    /\ sec = NoSectorOp
    /\ ops = 0
    /\ mem = EmptyImage
    /\ disk = mem
    /\ dir_track = DIR_TRACK_TRSDOS
    /\ dir_sector_offset = 0
    /\ system_type = "Unknown"
    /\ detected_os = "Unknown"
    /\ last = NoOp
    /\ prev = NoOp
    /\ NotMounted
    /\ NotDetected

\* self._parse_image()
Jv3ParseOp ==
    /\ ops = 0
    /\ sector_map' = JV3ParseImage(self_data)
    /\ sec' = [NoSectorOp EXCEPT !.op = "parse"]
    /\ ops' = ops + 1
    /\ UNCHANGED <<handler, self_data, track_len, is_single_sided>>
    /\ UNCHANGED fsVars
    /\ UNCHANGED fuseVars
    /\ UNCHANGED detectVars

\* read_sector(track, side, sector) on the parsed image
Jv3ReadOp ==
    /\ ops >= 1
    /\ ops < MaxJv3Ops
    /\ \E a \in Jv3WalkAddrs :
          \E rd \in {JV3ReadSector(self_data, sector_map, a[1], a[2], a[3])} :
              sec' = [op |-> "read", addr |-> a, rd |-> rd, payload |-> rd.p,
                      ok |-> FALSE, raised |-> FALSE, before |-> self_data]
    /\ ops' = ops + 1
    /\ UNCHANGED <<handler, self_data, track_len, is_single_sided, sector_map>>
    /\ UNCHANGED fsVars
    /\ UNCHANGED fuseVars
    /\ UNCHANGED detectVars

NextJv3 == Jv3ParseOp \/ Jv3ReadOp

SpecJv3 == InitJv3 /\ [][NextJv3]_vars

-----------------------------------------------------------------------------
(* Observations used by the properties *)

NameAB == <<65, 47, 66>>

\* a name spelled the way the directory stores and decodes it
Canonical(filename) == FullName(NewEntry(filename, 0, <<>>)) = filename

\* in use as the data model defines it: bit 0x10 set, bit 0x80 clear
InUse(e) == HasBit10(e.attr) /\ ~HasBit80(e.attr)

AllSlots(img) == {<<s, i>> : s \in DOMAIN img.dir, i \in 1..SlotsPerSector}

\* the in-use entries whose extents cover GAT position i
Coverers(img, i) ==
    {loc \in AllSlots(img) :
        InUse(SlotAt(img, loc))
        /\ i \in ExtentGatPositions(ParseExtents(SlotAt(img, loc)))}

DataPositions == {i \in 0..(GatLen - 1) : ~ReservedTrack(TrackOf(i))}

RECURSIVE SumSizes(_)
SumSizes(fl) == IF fl = <<>> THEN 0 ELSE fl[1].size + SumSizes(Tail(fl))

TotalCapacity == Cardinality(DataPositions) * SectorsPerGranule * SECTOR_SIZE

-----------------------------------------------------------------------------
(* C1 -- write/read round trip. After a successful write_file("A/B", bytes)   *)
(* the saved image gives read_file("A/B") = bytes and lists A/B with          *)
(* size = len(bytes).                                                         *)
C1_RoundTrip ==
    (last.op = "write" /\ last.ok /\ last.name = NameAB)
    => /\ ReadFile(disk, last.name) = Some(last.content)
       /\ \E n \in 1..Len(ListFiles(disk)) :
             /\ ListFiles(disk)[n].name = last.name
             /\ ListFiles(disk)[n].size = BLen(last.content)

C4_GatDirectoryAgree ==
    /\ \A i \in DataPositions :
          mem.gat[i + 1] # GAT_FREE => Cardinality(Coverers(mem, i)) = 1
    /\ \A i \in 0..(GatLen - 1) : Cardinality(Coverers(mem, i)) <= 1

(* C5 -- a write_file that writes an entry hands it at most five extents.     *)
C5_AtMostFiveExtents ==
    (last.op = "write" /\ last.ok) => Len(last.extents) <= MaxExtents

(* C6 -- when write_file or delete_file returns success the backing file      *)
(* equals the in-memory image.                                                *)
C6_SavedOnSuccess ==
    (last.op \in {"write", "delete"} /\ last.ok) => disk = mem

\* a successful delete after a successful write: both changed the image
C6_Witness ==
    /\ last.op = "delete" /\ last.ok /\ prev.op = "write" /\ prev.ok
    /\ disk = mem
    /\ \E loc \in AllSlots(disk) : SlotAt(disk, loc).name = NameField(NameAB)

(* C7 -- every file list_files reports with name n and size s is read by      *)
(* read_file(n) as exactly s bytes.                                           *)
C7_ReadLengthIsListedSize ==
    \A n \in 1..Len(ListFiles(mem)) :
        LET f == ListFiles(mem)[n]
            r == ReadFile(mem, f.name)
        IN  ~IsNone(r) /\ BLen(Val(r)) = f.size

(* C8 -- from the empty file system, get_free_space() plus the listed sizes   *)
(* never exceeds the data capacity.                                           *)
C8_SpaceAccounting ==
    GetFreeSpace(mem) + SumSizes(ListFiles(mem)) <= TotalCapacity

(* C9 -- whenever read_sector(cyl, head, sec) returned a payload p, the call  *)
(* write_sector(cyl, head, sec, p) that follows leaves the image buffer       *)
(* identical, in length and contents, to the buffer before it (JV1 and DMK).  *)
C9_ReadBackIsNoOp ==
    (sec.op = "readback" /\ sec.rd.kind = "data") => self_data = sec.before

\* a DMK sector that was written, then read back whole and written again
C9_Witness ==
    /\ handler = "DMK"
    /\ sec.op = "readback"
    /\ sec.rd.kind = "data"
    /\ sec.rd.p = Fill(1, SECTOR_SIZE)
    /\ sec.ok

(* C10 -- no two in-use directory entries carry the same name and extension   *)
(* fields.                                                                    *)
C10_NamesUnique ==
    \A a, b \in AllSlots(mem) :
        (a # b /\ InUse(SlotAt(mem, a)) /\ InUse(SlotAt(mem, b)))
        => ~(SlotAt(mem, a).name = SlotAt(mem, b).name
             /\ SlotAt(mem, a).ext = SlotAt(mem, b).ext)

\* the free runs the allocation scan meets, in scan order: per track off the
\* reserved ones, the number of its free granules when there is one (the two
\* granules of a track are adjacent)
FreeOnTrack(img, t) ==
    Cardinality({g \in 0..(GranulesPerTrack - 1) :
                    img.gat[t * GranulesPerTrack + g + 1] = GAT_FREE})

FreeRunTracks(img) ==
    {t \in 0..((GatLen \div GranulesPerTrack) - 1) :
        ~ReservedTrack(t) /\ FreeOnTrack(img, t) > 0}

\* the granules of the first n free runs
FirstRunsGranules(img, n) ==
    LET first == {t \in FreeRunTracks(img) :
                     Cardinality({u \in FreeRunTracks(img) : u < t}) < n}
        RECURSIVE Sum(_)
        Sum(S) == IF S = {} THEN 0
                  ELSE LET t == CHOOSE u \in S : TRUE
                       IN  FreeOnTrack(img, t) + Sum(S \ {t})
    IN  Sum(first)

\* the image write_file works on once the old entry is deleted
AfterDelete(f) == DeleteFile(mem, disk, f).mem

(* C11 -- a write_file call fails with "No free directory slots" exactly when *)
(* no entry of the scan has attribute 0; else with "Disk full or too          *)
(* fragmented (Max 5 extents)" exactly when the free granules lie in six or   *)
(* more runs and the first five runs hold fewer granules than needed; else    *)
(* with "Disk full" exactly when the runs are at most five and hold fewer     *)
(* granules than needed; and the three exceptions differ from one another.    *)
C11_DistinctFailures ==
    [][(last'.op = "write" /\ ops' = ops + 1) =>
          LET img == AfterDelete(last'.name)
              need == TotalGranules(BLen(last'.content))
              runs == Cardinality(FreeRunTracks(img))
              slot == ~IsNone(FindFreeSlot(img))
          IN  /\ (last'.err = "NoSlot") <=> ~slot
              /\ (last'.err = "fragmented") <=>
                    (slot /\ runs > MaxExtents
                          /\ FirstRunsGranules(img, MaxExtents) < need)
              /\ (last'.err = "full") <=>
                    (slot /\ runs <= MaxExtents
                          /\ FirstRunsGranules(img, MaxExtents) < need)
              /\ \A a, b \in {"NoSlot", "fragmented", "full"} :
                    a # b => WriteError(a) # WriteError(b)]_vars

\* a write that found the disk full, then one that found it too fragmented
C11_Witness ==
    /\ last.op = "write" /\ ~last.ok /\ last.err = "fragmented"
    /\ prev.op = "write" /\ ~prev.ok /\ prev.err = "full"

\* the entry read_file and delete_file find under the name the directory
\* shows for the entry at loc
FoundByItsName(img, loc) == FindEntry(img, FullName(SlotAt(img, loc))) = Some(loc)

(* C12 -- every directory entry that list_files reports, or that read_file    *)
(* and delete_file find under its name, has attribute bit 0x10 set and bit    *)
(* 0x80 clear.                                                                *)
C12_InUseEntriesHaveBit10 ==
    \A loc \in AllSlots(mem) :
        (Listed(SlotAt(mem, loc)) \/ FoundByItsName(mem, loc))
        => InUse(SlotAt(mem, loc))

\* the entry a write_file of name f puts in the image img: at the first free
\* slot once the old entry is deleted
WrittenSlot(f) == FindFreeSlot(AfterDelete(f))

(* C13 -- after a successful write_file("A/B", b"") read_file("A/B") returns  *)
(* 0 bytes and the entry written has byte 3 = 0 and bytes 20 and 21 = 0.      *)
C13_EmptyFileRba ==
    [][(last'.op = "write" /\ ops' = ops + 1 /\ last'.ok
          /\ last'.name = NameAB /\ BLen(last'.content) = 0)
       => LET e == SlotAt(mem', Val(WrittenSlot(NameAB)))
          IN  /\ ReadFile(mem', NameAB) = Some(<<>>)
              /\ e.eof_low = 0 /\ e.eof_mid = 0 /\ e.eof_high = 0]_vars

(* C14 -- after a successful write_file("A/B", c) with                        *)
(* ((len(c) - 1 + 255) & 0xFF) = 0 the entry written has byte 3 = 0 and bytes *)
(* 20-21 = len(c) - 1 little-endian, and read_file("A/B") returns len(c)      *)
(* bytes.                                                                     *)
C14_RbaSizesRoundTrip ==
    [][(last'.op = "write" /\ ops' = ops + 1 /\ last'.ok /\ last'.name = NameAB
          /\ (BLen(last'.content) - 1 + EOF_BIAS) % 256 = 0)
       => LET e == SlotAt(mem', Val(WrittenSlot(NameAB)))
              size == BLen(last'.content)
              r == ReadFile(mem', NameAB)
          IN  /\ e.eof_low = 0
              /\ e.eof_mid = (size - 1) % 256
              /\ e.eof_high = (size - 1) \div 256
              /\ ~IsNone(r) /\ BLen(Val(r)) = size]_vars

(* C13 as amended -- after a successful write_file("A/B", b"")                *)
(* read_file("A/B") returns 0 bytes and the entry written is in the offset    *)
(* EOF format: byte 3 = 0xFF (raw_eof = 0 + 255), bytes 20 and 21 = 0.        *)
C13_EmptyFileOffsetFormat ==
    [][(last'.op = "write" /\ ops' = ops + 1 /\ last'.ok
          /\ last'.name = NameAB /\ BLen(last'.content) = 0)
       => LET e == SlotAt(mem', Val(WrittenSlot(NameAB)))
          IN  /\ ReadFile(mem', NameAB) = Some(<<>>)
              /\ e.eof_low = EOF_BIAS /\ e.eof_mid = 0 /\ e.eof_high = 0]_vars

\* an empty A/B just written: it reads as 0 bytes and its entry has
\* byte 3 = 0xFF
C13_Witness ==
    /\ last.op = "write" /\ last.ok /\ last.name = NameAB
    /\ BLen(last.content) = 0
    /\ ReadFile(mem, NameAB) = Some(<<>>)
    /\ ~IsNone(FindEntry(mem, NameAB))
    /\ SlotAt(mem, Val(FindEntry(mem, NameAB))).eof_low = EOF_BIAS

\* n free GAT positions in a row off the reserved tracks
HasAdjacentFree(img, n) ==
    \E i \in 0..(GatLen - n) :
        \A j \in 0..(n - 1) :
            ~ReservedTrack(TrackOf(i + j)) /\ img.gat[i + j + 1] = GAT_FREE

(* C15 -- a successful write_file of exactly 5 x 5 x 256 bytes onto an image  *)
(* with five free granules in a row writes an entry with exactly one extent,  *)
(* of count 5.                                                                *)
C15_OneExtentOfFive ==
    [][(last'.op = "write" /\ ops' = ops + 1 /\ last'.ok
          /\ BLen(last'.content) = MaxExtents * SectorsPerGranule * SECTOR_SIZE
          /\ HasAdjacentFree(AfterDelete(last'.name), MaxExtents))
       => LET e == SlotAt(mem', Val(WrittenSlot(last'.name)))
          IN  /\ Len(ParseExtents(e)) = 1
              /\ ParseExtents(e)[1][3] = MaxExtents]_vars

\* both granules of tracks first .. last are free
TracksFree(img, first, last_track) ==
    \A t \in first..last_track : FreeOnTrack(img, t) = GranulesPerTrack

(* C15 as amended -- a successful write_file of exactly 5 x 5 x 256 bytes     *)
(* writes an entry whose extents have counts of at most granules_per_track    *)
(* = 2 that sum to 5, so at least three extents; when tracks 1 to 3 are free  *)
(* they are exactly (1, 0, 2), (2, 0, 2), (3, 0, 1).                          *)
C15_ExtentsPerTrack ==
    [][(last'.op = "write" /\ ops' = ops + 1 /\ last'.ok
          /\ BLen(last'.content) = MaxExtents * SectorsPerGranule * SECTOR_SIZE)
       => LET xs == ParseExtents(SlotAt(mem', Val(WrittenSlot(last'.name))))
          IN  /\ SumCounts(xs) = MaxExtents
              /\ \A n \in 1..Len(xs) : xs[n][3] <= GranulesPerTrack
              /\ Len(xs) >= 3
              /\ TracksFree(AfterDelete(last'.name), 1, 3)
                    => xs = <<(<<1, 0, 2>>), (<<2, 0, 2>>), (<<3, 0, 1>>)>>]_vars

\* 6400 bytes written onto the empty image: three extents
C15_Witness ==
    /\ last.op = "write" /\ last.ok /\ prev.op = "none"
    /\ BLen(last.content) = MaxExtents * SectorsPerGranule * SECTOR_SIZE
    /\ last.extents = <<(<<1, 0, 2>>), (<<2, 0, 2>>), (<<3, 0, 1>>)>>
    /\ TracksFree(mem, 4, 6)

\* the free granules off the reserved tracks are n single ones on n tracks
SingleFreeGranules(img, n) ==
    /\ Cardinality(FreeRunTracks(img)) = n
    /\ \A t \in FreeRunTracks(img) : FreeOnTrack(img, t) = 1

(* C16 -- a write_file that needs 6 granules, on an image with a free         *)
(* directory slot whose free granules are 6 single ones on 6 distinct tracks  *)
(* off the reserved ones, raises the too-fragmented error and leaves the      *)
(* directory, the GAT and the backing file as the deletion of the old entry   *)
(* left them.                                                                 *)
C16_SixSinglesTooFragmented ==
    [][(last'.op = "write" /\ ops' = ops + 1
          /\ TotalGranules(BLen(last'.content)) = MaxExtents + 1
          /\ SingleFreeGranules(AfterDelete(last'.name), MaxExtents + 1)
          /\ ~IsNone(WrittenSlot(last'.name)))
       => /\ ~last'.ok
          /\ WriteError(last'.err).msg = "Disk full or too fragmented (Max 5 extents)"
          /\ mem' = AfterDelete(last'.name)
          /\ disk' = DeleteFile(mem, disk, last'.name).disk]_vars

\* the too-fragmented failure of a 6-granule write on the image of six single
\* free granules, which is left as it was
C16_Witness ==
    /\ last.op = "write" /\ ~last.ok /\ last.err = "fragmented"
    /\ TotalGranules(BLen(last.content)) = MaxExtents + 1
    /\ SingleFreeGranules(mem, MaxExtents + 1)
    /\ mem = SixSinglesImage /\ disk = mem

\* read_sector finds no payload at the address a in the buffer buf
NoBackingRecord(buf, a) ==
    ReadSector(handler, buf, track_len, is_single_sided, sector_map,
               a[1], a[2], a[3]).kind # "data"

(* C18 -- a write_sector call on a JV3 image, or on an address at which       *)
(* read_sector finds no payload, returns False, raises nothing and leaves the *)
(* buffer as it was.                                                          *)
C18_WriteRefusedReturnsFalse ==
    (sec.op = "write" /\ (handler = "JV3" \/ NoBackingRecord(sec.before, sec.addr)))
    => (~sec.ok /\ ~sec.raised /\ self_data = sec.before)

(* C19 -- no read_sector call raises an exception: an address without a       *)
(* payload in the buffer gives None, also on a truncated buffer.              *)
C19_ReadNeverRaises ==
    sec.op = "readback" => sec.rd.kind # "raise"

\* _analyze has run
Analysed == system_type # "Unknown"

\* sector (track, 0, sector) is read and its first byte is a GAT marker
MarkerAt(track, sector) ==
    /\ Truthy(DiskRead(track, sector))
    /\ ByteAt(DiskRead(track, sector).p, 0) \in valid_markers

\* sector (track, 0, sector) is read and holds "TRSDOS" or "GAT"
GatTextAt(track, sector) ==
    /\ Truthy(DiskRead(track, sector))
    /\ \/ Contains(DiskRead(track, sector).p, TxtTRSDOS)
       \/ Contains(DiskRead(track, sector).p, TxtGAT)

(* C20 -- once the analyzer has run on a disk whose sector (17, 0, 1) is read *)
(* with a first byte in the marker set, dir_track = 17 and                    *)
(* dir_sector_offset = 0.                                                     *)
C20_Sector1MarkerGivesBase0 ==
    (Analysed /\ MarkerAt(DEFAULT_DIR_TRACK, 1))
    => (dir_track = DEFAULT_DIR_TRACK /\ dir_sector_offset = 0)

(* C20 as amended -- once the analyzer has run: a marker byte at the start of *)
(* sector (17, 0, 0) gives dir_track = 17 and dir_sector_offset = 0; a marker *)
(* byte at the start of sector (17, 0, 1), when sector (17, 0, 0) is not      *)
(* accepted (not read, or no marker byte and no "TRSDOS" / "GAT" text), gives *)
(* dir_track = 17 and dir_sector_offset = 1.                                  *)
C20_ProbeOrder ==
    Analysed =>
       /\ MarkerAt(DEFAULT_DIR_TRACK, 0)
            => (dir_track = DEFAULT_DIR_TRACK /\ dir_sector_offset = 0
                /\ system_type = "Model I")
       /\ (MarkerAt(DEFAULT_DIR_TRACK, 1)
             /\ ~MarkerAt(DEFAULT_DIR_TRACK, 0) /\ ~GatTextAt(DEFAULT_DIR_TRACK, 0))
            => (dir_track = DEFAULT_DIR_TRACK /\ dir_sector_offset = 1
                /\ system_type = "Model I (1-based)")

\* analysed, with sector (17, 0, 0) read but not accepted and a marker in
\* sector (17, 0, 1): base 1
C20_Witness ==
    /\ Analysed
    /\ Truthy(DiskRead(DEFAULT_DIR_TRACK, 0))
    /\ ~MarkerAt(DEFAULT_DIR_TRACK, 0) /\ ~GatTextAt(DEFAULT_DIR_TRACK, 0)
    /\ MarkerAt(DEFAULT_DIR_TRACK, 1)
    /\ dir_track = DEFAULT_DIR_TRACK /\ dir_sector_offset = 1

\* the lengths of the buffers of the paths other than p, summed
BufferedElsewhere(p) ==
    LET others == DOMAIN buffers \ {p}
        lens == [q \in others |-> BLen(buffers[q])]
        RECURSIVE Add(_)
        Add(S) == IF S = {} THEN 0
                  ELSE LET q == CHOOSE x \in S : TRUE IN lens[q] + Add(S \ {q})
    IN  Add(others)

(* C17 -- a mount-layer write(path, buf, offset) raises the out-of-space      *)
(* error (ENOSPC) exactly when the lengths of the buffers of the other paths  *)
(* plus offset + len(buf) exceed get_free_space(); otherwise it returns       *)
(* len(buf) and the path's buffer holds buf at offset .. offset + len(buf).   *)
C17_WriteRejectedWhenOverFreeSpace ==
    [][(fuse'.op = "write" /\ ops' = ops + 1) =>
          LET p == fuse'.path
              end == fuse'.offset + BLen(fuse'.buf)
          IN  IF BufferedElsewhere(p) + end > GetFreeSpace(mem)
              THEN fuse'.ret = "ENOSPC"
              ELSE /\ fuse'.ret = "ok"
                   /\ fuse'.n = BLen(fuse'.buf)
                   /\ p \in DOMAIN buffers'
                   /\ Slice(buffers'[p], fuse'.offset, end) = fuse'.buf]_vars

\* a write refused because of the bytes buffered for another path: its own
\* end offset fits the free space
C17_Witness ==
    /\ fuse.op = "write" /\ fuse.ret = "ENOSPC"
    /\ fuse.offset + BLen(fuse.buf) <= GetFreeSpace(mem)
    /\ \E q \in DOMAIN buffers : q # fuse.path /\ BLen(buffers[q]) > 0
    /\ fuse.path \in failed_paths

\* the probe of sector (track, 0, sector) fails: not read, or neither a marker
\* byte nor the text
ProbeFails(track, sector) == ~MarkerAt(track, sector) /\ ~GatTextAt(track, sector)

\* sector (9, 0, 10) is read and bytes 5..12 of its first entry hold "BOOT"
Track9NameBoot ==
    /\ Truthy(DiskRead(NEWDOS_DIR_TRACK, NewdosScanStart))
    /\ Contains(Slice(DiskRead(NEWDOS_DIR_TRACK, NewdosScanStart).p, 5, 13), TxtBOOT)

\* the attribute byte of that entry is neither 0 nor 0xFF
Track9AttrSet ==
    ByteAt(DiskRead(NEWDOS_DIR_TRACK, NewdosScanStart).p, 0) \notin {0, 255}

(* C21 -- once the analyzer has run on a disk whose probes of sectors          *)
(* (17, 0, 0) and (17, 0, 1) both fail and whose sector (9, 0, 10) holds a     *)
(* first entry with "BOOT" in its name field, dir_track = 9 and the directory  *)
(* scans cover sectors 10 to 17.                                               *)
C21_Track9AfterTrack17 ==
    (Analysed /\ ProbeFails(DEFAULT_DIR_TRACK, 0) /\ ProbeFails(DEFAULT_DIR_TRACK, 1)
              /\ Track9NameBoot)
    => (dir_track = NEWDOS_DIR_TRACK /\ ScanFirst = 10 /\ ScanLast = 17)

(* C21 as amended -- once the analyzer has run on a disk whose four probes,    *)
(* (17, 0, 0), (17, 0, 1), (20, 0, 0) and (20, 0, 1), all fail and whose       *)
(* sector (9, 0, 10) holds a first entry with an attribute byte other than 0   *)
(* and 0xFF and "BOOT" in its name field, dir_track = 9, system_type is        *)
(* "NEWDOS/80 (Track 9)" and the directory scans cover sectors 10 to 17; when  *)
(* a probe of track 20 succeeds instead, dir_track = 20.                       *)
C21_Track9AfterAllProbes ==
    (Analysed /\ ProbeFails(DEFAULT_DIR_TRACK, 0) /\ ProbeFails(DEFAULT_DIR_TRACK, 1)
              /\ Track9NameBoot /\ Track9AttrSet)
    => IF ProbeFails(MODEL3_DIR_TRACK, 0) /\ ProbeFails(MODEL3_DIR_TRACK, 1)
       THEN /\ dir_track = NEWDOS_DIR_TRACK
            /\ system_type = "NEWDOS/80 (Track 9)"
            /\ ScanFirst = 10 /\ ScanLast = 17
       ELSE dir_track = MODEL3_DIR_TRACK

\* analysed, the four probes failed, track 9 holds the BOOT entry: track 9
C21_Witness ==
    /\ Analysed
    /\ ProbeFails(DEFAULT_DIR_TRACK, 0) /\ ProbeFails(DEFAULT_DIR_TRACK, 1)
    /\ ProbeFails(MODEL3_DIR_TRACK, 0) /\ ProbeFails(MODEL3_DIR_TRACK, 1)
    /\ Track9NameBoot /\ Track9AttrSet
    /\ dir_track = NEWDOS_DIR_TRACK /\ ScanFirst = 10

\* the header has bytes 1 to 3, a track count in 1..100 and a track length in
\* 1..19999
PlausibleDmkHeader ==
    /\ BLen(header) >= 4
    /\ ByteAt(header, 1) > 0 /\ ByteAt(header, 1) <= 100
    /\ ByteAt(header, 2) + 256 * ByteAt(header, 3) > 0
    /\ ByteAt(header, 2) + 256 * ByteAt(header, 3) < 20000

(* C22 -- once detect_format has been called, it has returned the DMK handler  *)
(* when the file name ends in ".dmk" (in either case of the letters) and the   *)
(* header has a track count in 1..100 and a track length in 1..19999, and the  *)
(* JV1 handler in every other case.                                            *)
C22_DmkOrJv1 ==
    detected # "none" =>
        IF LowerEndsWith(image_file, DmkSuffix) /\ PlausibleDmkHeader
        THEN detected = "DMK" ELSE detected = "JV1"

\* the map of a walk that advances past every record, free or in use, by
\* the header and the data length of its size code, from offset on
RECURSIVE Jv3RecordsFrom(_, _)
Jv3RecordsFrom(buf, offset) ==
    IF offset + JV3_HEADER_SIZE > BLen(buf) THEN {}
    ELSE LET flags == ByteAt(buf, offset + 2)
             key == <<ByteAt(buf, offset), (flags \div 16) % 2, ByteAt(buf, offset + 1)>>
             rest == Jv3RecordsFrom(buf, offset + JV3_HEADER_SIZE
                                            + Jv3DataLen(flags % 4))
         IN  IF key[1] = JV3_FREE THEN rest
             ELSE {<<key, offset + JV3_HEADER_SIZE>>} \cup rest

(* C23 -- once _parse_image has run, every in-use record that a walk of 3      *)
(* header bytes plus the data length of the size code (0->256, 1->128,         *)
(* 2->1024, 3->512) past every record, free or in use, finds is mapped to the  *)
(* offset of its own payload.                                                  *)
C23_WalkerMapsEveryRecord ==
    (handler = "JV3" /\ sec.op \in {"parse", "read"})
    => \E recs \in {Jv3RecordsFrom(self_data, 0)} : recs \subseteq sector_map

\* the GAT positions write_file may allocate that are free in img
FreeDataPositions(img) == {i \in DataPositions : img.gat[i + 1] = GAT_FREE}

\* the n lowest elements of S (all of S when it has fewer)
LowestOf(S, n) == {i \in S : Cardinality({j \in S : j < i}) < n}

(* C24 -- a successful write_file of a name that matched no entry, for a       *)
(* content needing n = ceil(ceil(size / 256) / 5) granules, changes exactly n  *)
(* GAT bytes: the n lowest positions that were 0xFF outside cylinder 0 and the *)
(* directory track, each set to 0xFE; its extents cover exactly those          *)
(* positions, each extent within one track; get_free_space() drops by          *)
(* n * 5 * 256.                                                                *)
C24_FirstFit ==
    [][(last'.op = "write" /\ ops' = ops + 1 /\ last'.ok /\ ~last'.existed) =>
          \E n \in {TotalGranules(BLen(last'.content))} :
          \E changed \in {{i \in 0..(GatLen - 1) : mem'.gat[i + 1] # mem.gat[i + 1]}} :
              /\ Cardinality(changed) = n
              /\ changed = LowestOf(FreeDataPositions(mem), n)
              /\ \A i \in changed : mem'.gat[i + 1] = GAT_RESERVED
              /\ ExtentGatPositions(last'.extents) = changed
              /\ \A k \in 1..Len(last'.extents) :
                    /\ last'.extents[k][3] >= 1
                    /\ last'.extents[k][2] + last'.extents[k][3] <= GranulesPerTrack
              /\ GetFreeSpace(mem') = GetFreeSpace(mem) - n * SectorsPerGranule * SECTOR_SIZE
      ]_vars

\* the GAT positions of the extents of the entry at loc that the GAT holds
EntryGatPositions(img, loc) ==
    {i \in ExtentGatPositions(ParseExtents(SlotAt(img, loc))) : i < Len(img.gat)}

(* C25 -- a delete_file call on a name the scan finds returns true, sets to    *)
(* 0xFF exactly the GAT positions of the granules of that entry's extents,     *)
(* zeroes the attribute byte of that entry, and leaves every other GAT byte,   *)
(* every other directory entry and every data sector as they were; on a name   *)
(* the scan does not find it returns false and changes nothing; a delete_file  *)
(* of the name the call before deleted changes nothing.                        *)
C25_DeleteFrame ==
    [][(last'.op = "delete" /\ ops' = ops + 1) =>
          /\ \E found \in {FindEntry(mem, last'.name)} :
                IF IsNone(found) THEN ~last'.ok /\ mem' = mem /\ disk' = disk
                ELSE \E loc \in {Val(found)} :
                     \E freed \in {EntryGatPositions(mem, loc)} :
                        /\ last'.ok
                        /\ \A i \in 0..(GatLen - 1) :
                              mem'.gat[i + 1] = IF i \in freed THEN GAT_FREE
                                                ELSE mem.gat[i + 1]
                        /\ mem'.dir[loc[1]][loc[2]] =
                              [mem.dir[loc[1]][loc[2]] EXCEPT !.attr = 0]
                        /\ \A other \in AllSlots(mem) \ {loc} :
                              mem'.dir[other[1]][other[2]] = mem.dir[other[1]][other[2]]
                        /\ mem'.data = mem.data
          /\ (last.op = "delete" /\ last.ok /\ last.name = last'.name)
                => (~last'.ok /\ mem' = mem)
      ]_vars

\* the names list_files reports on img
ListedNames(img) == {ListFiles(img)[n].name : n \in 1..Len(ListFiles(img))}

(* C26 -- a write_file call that fails leaves the GAT and the directory as     *)
(* they were before the call; a file that was stored under the name is still   *)
(* listed and read_file of the name still returns its content.                 *)
C26_FailedWriteChangesNothing ==
    [][(last'.op = "write" /\ ops' = ops + 1 /\ ~last'.ok) =>
          /\ mem'.gat = mem.gat
          /\ mem'.dir = mem.dir
          /\ last'.name \in ListedNames(mem) => last'.name \in ListedNames(mem')
          /\ ReadFile(mem', last'.name) = ReadFile(mem, last'.name)
      ]_vars

\* GAT and directory agree on img
GatDirectoryAgree(img) ==
    /\ \A i \in DataPositions :
          img.gat[i + 1] # GAT_FREE => Cardinality(Coverers(img, i)) = 1
    /\ \A i \in 0..(GatLen - 1) : Cardinality(Coverers(img, i)) <= 1

\* the sizes list_files reports on img under the name m
ListedSizes(img, m) ==
    {ListFiles(img)[n].size : n \in {k \in 1..Len(ListFiles(img)) :
                                        ListFiles(img)[k].name = m}}

\* the name list_files reports for an entry written under filename
StoredName(filename) == FullName(NewEntry(filename, 0, <<>>))

(* C27 -- a successful write_file(name, content) on an image whose GAT and     *)
(* directory agree leaves every other listed file as it was: still listed,     *)
(* with the same size, and read_file returns the same bytes.                   *)
C27_WriteFrame ==
    [][(last'.op = "write" /\ ops' = ops + 1 /\ last'.ok /\ GatDirectoryAgree(mem)) =>
          \A m \in ListedNames(mem) \ {last'.name, StoredName(last'.name)} :
              /\ m \in ListedNames(mem')
              /\ ListedSizes(mem', m) = ListedSizes(mem, m)
              /\ ReadFile(mem', m) = ReadFile(mem, m)
      ]_vars

(* C28 -- mount layer: in every reachable state the lengths of all buffered,   *)
(* uncommitted files sum to at most get_free_space().                          *)
C28_BufferedWithinFreeSpace ==
    TotalBufferedAll(buffers, <<>>) <= GetFreeSpace(mem)

(* C29 -- mount layer: after every release and unlink call the cached listing  *)
(* names exactly the files list_files() reports on the image.                  *)
C29_CacheMatchesListing ==
    fuse.op \in {"release", "unlink"} => files = RefreshFiles(mem)

(* C30 -- mount layer: a release of a path that is recorded as failed (a write *)
(* to it was rejected with the out-of-space error, and it has not been         *)
(* created or opened since) commits nothing to the image.                      *)
C30_RejectedNeverCommitted ==
    [][(fuse'.op = "release" /\ ops' = ops + 1 /\ fuse'.path \in failed_paths) =>
          /\ mem' = mem
          /\ disk' = disk
      ]_vars

====
